---- MODULE Spec2Model ----
(***************************************************************************)
(* State-machine model of the SimpleAST call-chain analysis: the function  *)
(* index of SingleFileAnalyzer and its call-chain tracer (boundary mode),  *)
(* the symbol table of ProjectIndexer and CallChainTracer (full-project    *)
(* mode), and the dependency aggregation built on the traced trees.        *)
(*                                                                         *)
(* A source file is abstracted to what the tree-sitter adapter hands to    *)
(* the analyzer: the function_definition nodes in source order, each with  *)
(* its name, storage class, 1-based line and the call_expression nodes of  *)
(* its body in pre-order (= source order), each with the text of its       *)
(* `function` field and its line.                                          *)
(***************************************************************************)
EXTENDS Integers, Sequences, FiniteSets, TLC

VARIABLES
    file_functions,       \* SingleFileAnalyzer.file_functions: name -> record
    internal_functions,   \* SingleFileAnalyzer.internal_functions
    external_functions,   \* SingleFileAnalyzer.external_functions
    cur_file,             \* the file most recently given to analyze_file
    analyses,             \* number of analyze_file calls made on the analyzer
    last_trace,           \* the most recent trace_call_chain call and result
    traced,               \* per name, the first default-depth tree since the analysis,
                          \* and whether the last such trace repeated an earlier one
    run,                  \* a trace_call_chain call in progress, step by step
    stack,                \* its activations of _trace_function_calls_recursive
    call_chains,          \* AnalysisResult.call_chains: entry name -> tree
    deps,                 \* the latest _collect_all_dependencies call and result
    request,              \* target_function and trace_depth of the boundary analysis
    full_index,           \* mode_config.requires_full_index of the analyzer's mode
    project,              \* full-project mode: the files of the project, by path
    symbol_table,         \* ProjectIndexer.symbol_table: name -> list of SymbolInfo
    project_trace,        \* the most recent trace_from_entry_point call and result
    cls_config,           \* ExternalFunctionClassifier: platform and the pattern lists
    cls_result,           \* the most recent classify call and result
    header,               \* the sibling headers of the analyzed file on disk
    entry_points,         \* the most recent get_entry_points call and result
    br_func,              \* the function_definition node given to the BranchAnalyzer
    br_result,            \* the most recent analyze_function call and result
    ss_file,              \* the lines of the header the StructureSearcher reads
    ss_result,            \* the most recent _extract_definition_from_file call and result
    mx_file,              \* the lines of the file a multi-line macro is read from
    mx_result,            \* the most recent _read_multiline_macro call and result
    outcome,              \* what the latest analyze_file call gave its caller
    held,                 \* the FileBoundary of the first analyze_file call, kept
                          \* by the caller: its fields at return and now
    command,              \* analyze.py: the mode argument and the configuration file
    process,              \* analyze.py: how far the run of main() went
    lookup,               \* a definition lookup: its kind and what each external
                          \* text search it may run comes to
    lookup_result,        \* the most recent definition lookup and what it gave
    batch,                \* how the latest boundary-mode analysis ended for its caller
    report,               \* the latest generate_single_function_report call and the
                          \* function sections of its report, in the order emitted
    file_data_structures,     \* SingleFileAnalyzer.file_data_structures: name -> record
    internal_data_structures, \* SingleFileAnalyzer.internal_data_structures
    external_data_structures  \* SingleFileAnalyzer.external_data_structures

analyzer == <<file_functions, internal_functions, external_functions, cur_file>>
stepping == <<run, stack>>
observed == <<last_trace, traced>>
aggregation == <<call_chains, deps, request>>
full_mode == <<full_index, project, symbol_table, project_trace>>
classifier == <<cls_config, cls_result>>
exposure == <<header, entry_points>>
branches == <<br_func, br_result>>
structures == <<ss_file, ss_result>>
macro_reading == <<mx_file, mx_result>>
callers == <<outcome, held>>
startup == <<command, process>>
lookups == <<lookup, lookup_result>>
later_tools == <<startup, lookups, batch, report>>
more_tools == <<macro_reading, callers, later_tools>>
tools == <<classifier, exposure, branches, structures, more_tools>>
data_structures == <<file_data_structures, internal_data_structures, external_data_structures>>
vars == <<analyzer, analyses, observed, stepping, aggregation, full_mode, tools, data_structures>>

(***************************************************************************)
(* Bounds of the model.                                                    *)
(***************************************************************************)
\* total number of call expressions in one generated file
MaxSites == 3
\* largest explicit max_depth argument tried (besides the default)
MaxDepth == 3
\* analyze_file calls made on one analyzer in a session
MaxAnalyses == 2
\* total number of call expressions in a file analyzed in a session
MaxSessionSites == 1
\* total number of call expressions in a file whose result is aggregated
MaxAggSites == 2
\* largest explicit trace_depth of an aggregated analysis (besides the default)
MaxAggDepth == 2
\* the interpreter's recursion limit, counted in nested activations of
\* _trace_function_calls_recursive (scaled to the generated files)
RecursionLimit == 2
\* total number of call expressions in a file whose dependencies are collected
MaxCollectSites == 3
\* total number of call expressions in the entry file of an indexed project
MaxProjectSites == 2
\* largest explicit trace_depth of a full-project analysis (besides the default)
MaxProjectDepth == 2

(***************************************************************************)
(* Program constants.                                                      *)
(***************************************************************************)
\* default of trace_call_chain's max_depth parameter
DefaultMaxDepth == 100
\* CallChainTracer.max_depth as the constructor sets it
TracerMaxDepth == 999

\* _is_standard_library_function: the fixed denylist
std_functions ==
    { "printf", "scanf", "sprintf", "fprintf", "snprintf",
      "malloc", "free", "calloc", "realloc",
      "memcpy", "memset", "memmove", "memcmp",
      "strlen", "strcpy", "strcat", "strcmp", "strncpy", "strncmp",
      "fopen", "fclose", "fread", "fwrite", "fseek", "ftell",
      "exit", "abort", "assert",
      "sqrt", "pow", "sin", "cos", "exp", "log" }

\* faulty variant: no name is on the denylist
_is_standard_library_function_Never(func_name) == FALSE

_is_standard_library_function(func_name) == func_name \in std_functions

(***************************************************************************)
(* Generated input files.                                                  *)
(***************************************************************************)
\* names a generated file may define, in the order it defines them
DefNames == <<"a", "b", "c">>

\* texts of the `function` field of a call expression: a sequence of the
\* segments separated by '.' or '->' (a plain call has one segment)
CallTexts == { <<"a">>, <<"b">>, <<"c">>, <<"printf">> }

NoFile == <<>>

SeqsOfLen(S, n) == [1..n -> S]

\* all ways to give `n` function bodies at most `budget` call texts in total
RECURSIVE BodiesWithin(_, _)
BodiesWithin(n, budget) ==
    IF n = 0 THEN { <<>> }
    ELSE UNION { { <<b>> \o rest : b \in SeqsOfLen(CallTexts, k),
                                   rest \in BodiesWithin(n - 1, budget - k) }
                 : k \in 0..budget }

\* the function_definition node number i of a file, with body texts `body`
FuncDef(i, name, static, body) ==
    [ name      |-> name,
      signature |-> <<"decl", name, i>>,
      is_static |-> static,
      line      |-> 10 * i,
      calls     |-> [ j \in 1..Len(body) |-> [ text |-> body[j], line |-> 10 * i + j ] ] ]

MakeFile(bodies) ==
    [ i \in 1..Len(bodies) |-> FuncDef(i, DefNames[i], FALSE, bodies[i]) ]

\* files defining a prefix of DefNames, with at most `budget` call sites
FilesWithin(budget) ==
    UNION { { MakeFile(bs) : bs \in BodiesWithin(n, budget) } : n \in 0..Len(DefNames) }

Files == FilesWithin(MaxSites)

DefinedIn(file) == { file[i].name : i \in 1..Len(file) }

(***************************************************************************)
(* SingleFileAnalyzer: indexing and boundary sets.                         *)
(***************************************************************************)
\* file_functions[func_name] = {...}: a dict store, replacing an old entry
DictPut(d, k, v) == [ n \in (DOMAIN d) \cup {k} |-> IF n = k THEN v ELSE d[n] ]

EmptyDict == [ n \in {} |-> n ]

\* the record _index_file_functions stores for a function_definition node
FunctionInfo(func_node) ==
    [ node      |-> func_node,
      signature |-> func_node.signature,
      line      |-> func_node.line,
      is_static |-> func_node.is_static ]

\* _index_file_functions: every function_definition in source order, from
\* definition i on, stored into the analyzer's (never cleared) dict
RECURSIVE IndexFrom(_, _, _)
IndexFrom(file, i, ff) ==
    IF i > Len(file) THEN ff
    ELSE IF file[i].name = "" THEN IndexFrom(file, i + 1, ff)
    ELSE IndexFrom(file, i + 1, DictPut(ff, file[i].name, FunctionInfo(file[i])))

_index_file_functions(file, ff) == IndexFrom(file, 1, ff)

\* names added to internal_functions by _index_file_functions
IndexedNames(file) == { file[i].name : i \in { k \in 1..Len(file) : file[k].name # "" } }

\* obj.method() / obj->method() is reduced to the trailing method name
CalledName(text) == IF Len(text) >= 2 THEN text[Len(text)] ELSE text[1]

\* every call_expression of the file, as (definition index, call index)
CallSites(file) ==
    UNION { { <<i, j>> : j \in 1..Len(file[i].calls) } : i \in 1..Len(file) }

\* _analyze_function_calls: the names added to external_functions, decided
\* against the dict as it is after indexing
NewExternals(file, ff) ==
    { CalledName(file[s[1]].calls[s[2]].text) : s \in
        { t \in CallSites(file) :
            LET called_func == CalledName(file[t[1]].calls[t[2]].text)
            IN  /\ ~ _is_standard_library_function(called_func)
                /\ called_func \notin DOMAIN ff } }

\* _is_standard_library_type: the fixed denylist of type names
std_types ==
    { "string", "vector", "list", "map", "set", "unordered_map", "unordered_set",
      "queue", "stack", "deque", "priority_queue",
      "shared_ptr", "unique_ptr", "weak_ptr",
      "mutex", "thread", "atomic",
      "ifstream", "ofstream", "fstream", "stringstream",
      "int8_t", "int16_t", "int32_t", "int64_t",
      "uint8_t", "uint16_t", "uint32_t", "uint64_t",
      "size_t", "ptrdiff_t" }

_is_standard_library_type(type_name) == type_name \in std_types

\* a parsed translation unit: its function definitions, its struct, class,
\* enum and typedef definitions, and the further type identifiers it names
UnitOf(file, structs, types) == [ functions |-> file, structs |-> structs, types |-> types ]

\* the definition number i among the data structures of a unit
StructDef(i, name) == [ name |-> name, type |-> "struct", line |-> 100 + i ]

\* _index_file_data_structures: every definition with a name, stored into
\* the analyzer's dict from definition i on
RECURSIVE IndexStructsFrom(_, _, _)
IndexStructsFrom(structs, i, fds) ==
    IF i > Len(structs) THEN fds
    ELSE IndexStructsFrom(structs, i + 1,
             DictPut(fds, structs[i].name,
                     [ node |-> structs[i], type |-> structs[i].type, line |-> structs[i].line ]))

_index_file_data_structures(structs, fds) == IndexStructsFrom(structs, 1, fds)

\* names added to internal_data_structures by _index_file_data_structures
StructNames(structs) == { structs[i].name : i \in 1..Len(structs) }

\* every type_identifier node of the unit: the names of its definitions and
\* the other types it names
TypeIdentifiers(unit) ==
    StructNames(unit.structs) \cup { unit.types[i] : i \in 1..Len(unit.types) }

\* _analyze_data_structure_usage: the names added to
\* external_data_structures
NewExternalTypes(type_names, fds) ==
    { type_name \in type_names :
        ~ _is_standard_library_type(type_name) /\ type_name \notin DOMAIN fds }

(***************************************************************************)
(* The call-chain tracer.                                                  *)
(***************************************************************************)
\* Optional[CallNode]: <<>> is None, <<node>> is a node
None == <<>>

ExternalNode(func_name) ==
    [ function_name    |-> func_name,
      file_path        |-> "<external>",
      line_number      |-> 0,
      signature        |-> <<"<external function>">>,
      called_from_line |-> 0,
      is_external      |-> TRUE,
      is_recursive     |-> FALSE,
      children         |-> <<>> ]

\* faulty variant: the flag is never set
IsRecursiveFlag_Never(func_name, visited) == FALSE

\* is_recursive=(func_name in visited)
IsRecursiveFlag(func_name, visited) == func_name \in visited

\* if func_name in visited: return current_node
StopsAtRevisit(func_name, visited) == func_name \in visited

\* faulty variant: the bound is tested one level late
DepthReached_Late(depth, max_depth) == depth > max_depth

\* if depth >= max_depth: return None
DepthReached(depth, max_depth) == depth >= max_depth

\* if func_name not in self.file_functions: external node
NotInFile(ff, func_name) == func_name \notin DOMAIN ff

\* faulty variant: the node of a function of the file is flagged external
CurrentNode_FlagExternal(func_info, func_name, visited) ==
    [ function_name    |-> func_name,
      file_path        |-> "<file>",
      line_number      |-> func_info.line,
      signature        |-> func_info.signature,
      called_from_line |-> 0,
      is_external      |-> TRUE,
      is_recursive     |-> IsRecursiveFlag(func_name, visited),
      children         |-> <<>> ]

\* current_node = CallNode(...)
CurrentNode(func_info, func_name, visited) ==
    [ function_name    |-> func_name,
      file_path        |-> "<file>",
      line_number      |-> func_info.line,
      signature        |-> func_info.signature,
      called_from_line |-> 0,
      is_external      |-> FALSE,
      is_recursive     |-> IsRecursiveFlag(func_name, visited),
      children         |-> <<>> ]

\* faulty variant: the callee was handed the caller's own set, not a copy
AfterCall_Shared(own, passed) == passed

\* the caller's visited set after a recursive call that was handed
\* visited.copy(): `own` is the caller's set, `passed` the callee's set
\* object as the callee left it
AfterCall(own, passed) == own

\* faulty variant: the call-site line is not recorded
WithCallSite_Unset(child_node, call_expr) == child_node

\* child_node.called_from_line = call_expr.start_point[0] + 1
WithCallSite(child_node, call_expr) ==
    [ child_node EXCEPT !.called_from_line = call_expr.line ]

RECURSIVE TraceRec(_, _, _, _, _)
RECURSIVE TraceCalls(_, _, _, _, _, _, _)

\* _trace_function_calls_recursive; returns the Optional[CallNode] and the
\* visited set object it was given, as it leaves it
TraceRec(ff, func_name, visited, depth, max_depth) ==
    IF DepthReached(depth, max_depth) THEN [ node |-> None, visited |-> visited ]
    ELSE IF NotInFile(ff, func_name)
    THEN [ node |-> << ExternalNode(func_name) >>, visited |-> visited ]
    ELSE LET current_node == CurrentNode(ff[func_name], func_name, visited)
         IN  IF StopsAtRevisit(func_name, visited)
             THEN [ node |-> << current_node >>, visited |-> visited ]
             ELSE LET r == TraceCalls(ff, ff[func_name].node.calls, 1,
                                      visited \cup {func_name}, depth, max_depth, <<>>)
                  IN  [ node    |-> << [ current_node EXCEPT !.children = r.children ] >>,
                        visited |-> r.visited ]

\* the loop over call_expressions, from call i on
TraceCalls(ff, call_expressions, i, visited, depth, max_depth, children) ==
    IF i > Len(call_expressions) THEN [ children |-> children, visited |-> visited ]
    ELSE LET call_expr   == call_expressions[i]
             called_name == CalledName(call_expr.text)
         IN  IF _is_standard_library_function(called_name)
             THEN TraceCalls(ff, call_expressions, i + 1, visited, depth, max_depth, children)
             ELSE LET r == TraceRec(ff, called_name, visited, depth + 1, max_depth)
                      kids == IF r.node # None
                              THEN Append(children, WithCallSite(r.node[1], call_expr))
                              ELSE children
                  IN  TraceCalls(ff, call_expressions, i + 1, AfterCall(visited, r.visited),
                                 depth, max_depth, kids)

\* faulty variant: the visited set lives on between trace_call_chain calls
FreshVisited_KeptBetweenCalls == { n \in DOMAIN traced.first : traced.first[n] # <<>> }

\* visited=set() of trace_call_chain
FreshVisited == {}

\* faulty variant: the entry name is not looked up before tracing
trace_call_chain_NoLookup(ff, func_name, max_depth) ==
    TraceRec(ff, func_name, FreshVisited, 0, max_depth).node

\* trace_call_chain(func_name, source_code, max_depth)
trace_call_chain(ff, func_name, max_depth) ==
    IF func_name \notin DOMAIN ff THEN None
    ELSE TraceRec(ff, func_name, FreshVisited, 0, max_depth).node

(***************************************************************************)
(* Full-project mode: ProjectIndexer and CallChainTracer.                  *)
(***************************************************************************)
\* paths of the generated project files, relative to the project root
EntryPath == "main.cpp"
OtherPath == "other.cpp"

\* the SymbolInfo _add_function_symbol makes for a function_definition node
\* of a .cpp file
SymbolInfo(func_node, file_path) ==
    [ name           |-> func_node.name,
      type           |-> "function",
      file_path      |-> file_path,
      line_number    |-> func_node.line,
      signature      |-> func_node.signature,
      is_declaration |-> FALSE,
      is_in_header   |-> FALSE ]

\* _index_functions: every function_definition of a file in source order,
\* from definition i on, appended to the list of its name
RECURSIVE AddFunctionSymbols(_, _, _, _)
AddFunctionSymbols(file, file_path, i, st) ==
    IF i > Len(file) THEN st
    ELSE IF file[i].name = "" THEN AddFunctionSymbols(file, file_path, i + 1, st)
    ELSE LET func_name == file[i].name
             listed    == IF func_name \in DOMAIN st THEN st[func_name] ELSE <<>>
         IN  AddFunctionSymbols(file, file_path, i + 1,
                 DictPut(st, func_name, Append(listed, SymbolInfo(file[i], file_path))))

\* index_project: _index_file for every file, in the order the walk of the
\* project directory lists them
RECURSIVE IndexFiles(_, _, _, _)
IndexFiles(files, cpp_files, k, st) ==
    IF k > Len(cpp_files) THEN st
    ELSE IndexFiles(files, cpp_files, k + 1,
                    AddFunctionSymbols(files[cpp_files[k]], cpp_files[k], 1, st))

index_project(files, cpp_files) == IndexFiles(files, cpp_files, 1, EmptyDict)

find_symbol(st, symbol_name) ==
    IF symbol_name \in DOMAIN st THEN st[symbol_name] ELSE <<>>

\* find_definition: a definition outside headers, else any definition, else
\* the first declaration, else None
find_definition(st, symbol_name) ==
    LET symbols == find_symbol(st, symbol_name)
        in_cpp  == SelectSeq(symbols, LAMBDA sym : ~ sym.is_declaration /\ ~ sym.is_in_header)
        any_def == SelectSeq(symbols, LAMBDA sym : ~ sym.is_declaration)
    IN  IF in_cpp # <<>> THEN << in_cpp[1] >>
        ELSE IF any_def # <<>> THEN << any_def[1] >>
        ELSE IF symbols # <<>> THEN << symbols[1] >>
        ELSE None

\* _extract_call_name: an identifier as it is, a field expression reduced
\* to its field identifier
_extract_call_name(text) == text[Len(text)]

\* _extract_function_calls: the (name, line) pairs of the call expressions
\* of the first definition of function_name in the file
_extract_function_calls(files, file_path, function_name) ==
    LET func_defs == SelectSeq(files[file_path], LAMBDA d : d.name = function_name)
    IN  IF func_defs = <<>> THEN <<>>
        ELSE [ j \in 1..Len(func_defs[1].calls) |->
                 [ name |-> _extract_call_name(func_defs[1].calls[j].text),
                   line |-> func_defs[1].calls[j].line ] ]

\* CallNode(function_name, file_path, line_number, signature, ...) of a
\* symbol found in the index
ResolvedNode(function_name, symbol, called_from_line, is_external) ==
    [ function_name    |-> function_name,
      file_path        |-> symbol.file_path,
      line_number      |-> symbol.line_number,
      signature        |-> symbol.signature,
      called_from_line |-> called_from_line,
      is_external      |-> is_external,
      is_recursive     |-> FALSE,
      children         |-> <<>> ]

\* CallNode(function_name, called_from_line, is_external=True): a callee
\* that is nowhere in the project (the empty signature is the empty sequence)
UnresolvedNode(function_name, called_from_line) ==
    [ function_name    |-> function_name,
      file_path        |-> "",
      line_number      |-> 0,
      signature        |-> <<>>,
      called_from_line |-> called_from_line,
      is_external      |-> TRUE,
      is_recursive     |-> FALSE,
      children         |-> <<>> ]

\* func_key = f"{node.file_path}:{node.function_name}"
FuncKey(node) == << node.file_path, node.function_name >>

\* if depth >= self.max_depth: return
TracerDepthReached(depth, max_depth) == depth >= max_depth

\* trace_internal_only is True: a child is traced only when its definition
\* is in the entry file
TracedInto(is_external_file) == ~ is_external_file

\* CallChainTracer._trace_calls_recursive: the node as the call leaves it.
\* Every child is traced with a copy of visited, and the function takes its
\* own key out again before it returns.
RECURSIVE _trace_calls_recursive(_, _, _, _, _, _, _)
_trace_calls_recursive(st, files, node, visited, depth, max_depth, entry_file) ==
    IF TracerDepthReached(depth, max_depth) THEN node
    ELSE IF FuncKey(node) \in visited THEN [ node EXCEPT !.is_recursive = TRUE ]
    ELSE LET called_functions ==
                 _extract_function_calls(files, node.file_path, node.function_name)
             on_path == visited \cup { FuncKey(node) }
             ChildOf(call) ==
                 LET call_def == find_definition(st, call.name)
                 IN  IF call_def # None
                     THEN LET is_external_file == call_def[1].file_path # entry_file
                              child_node == ResolvedNode(call.name, call_def[1], call.line,
                                                         is_external_file)
                          IN  IF TracedInto(is_external_file)
                              THEN _trace_calls_recursive(st, files, child_node, on_path,
                                                          depth + 1, max_depth, entry_file)
                              ELSE child_node
                     ELSE UnresolvedNode(call.name, call.line)
         IN  [ node EXCEPT !.children =
                 [ j \in 1..Len(called_functions) |-> ChildOf(called_functions[j]) ] ]

\* trace_from_entry_point(entry_point_name, entry_file), the tracer's
\* max_depth being max_depth
trace_from_entry_point(st, files, entry_point_name, entry_file, max_depth) ==
    LET entry_defs == SelectSeq(find_symbol(st, entry_point_name),
                                LAMBDA symbol : symbol.file_path = entry_file
                                                  /\ ~ symbol.is_declaration)
    IN  IF entry_defs = <<>> THEN None
        ELSE << _trace_calls_recursive(st, files,
                    ResolvedNode(entry_point_name, entry_defs[1], 0, FALSE),
                    {}, 0, max_depth, entry_file) >>

(***************************************************************************)
(* ExternalFunctionClassifier.  A name or a glob pattern is the sequence   *)
(* of its characters.                                                      *)
(***************************************************************************)
UpperChars == << "A", "B", "C", "D", "E", "F", "G", "H", "I", "J", "K", "L", "M",
                 "N", "O", "P", "Q", "R", "S", "T", "U", "V", "W", "X", "Y", "Z" >>

LowerChars == << "a", "b", "c", "d", "e", "f", "g", "h", "i", "j", "k", "l", "m",
                 "n", "o", "p", "q", "r", "s", "t", "u", "v", "w", "x", "y", "z" >>

DigitChars == { "0", "1", "2", "3", "4", "5", "6", "7", "8", "9" }

IsUpperChar(ch) == \E k \in 1..Len(UpperChars) : UpperChars[k] = ch
IsLowerChar(ch) == \E k \in 1..Len(LowerChars) : LowerChars[k] = ch

\* str.lower() on one character
LowerOf(ch) ==
    IF IsUpperChar(ch)
    THEN LowerChars[CHOOSE k \in 1..Len(UpperChars) : UpperChars[k] = ch]
    ELSE ch

\* os.path.normcase as fnmatch.fnmatch applies it to the name and to the
\* pattern: the identity on POSIX, lower case on Windows
normcase(text, windows) ==
    IF windows THEN [ i \in 1..Len(text) |-> LowerOf(text[i]) ] ELSE text

\* fnmatch.fnmatchcase for patterns made of literals, '*' and '?': does
\* name from position i on match pat from position j on
RECURSIVE GlobMatchFrom(_, _, _, _)
GlobMatchFrom(name, i, pat, j) ==
    IF j > Len(pat) THEN i > Len(name)
    ELSE IF pat[j] = "*"
    THEN GlobMatchFrom(name, i, pat, j + 1)
         \/ (i <= Len(name) /\ GlobMatchFrom(name, i + 1, pat, j))
    ELSE /\ i <= Len(name)
         /\ (pat[j] = "?" \/ pat[j] = name[i])
         /\ GlobMatchFrom(name, i + 1, pat, j + 1)

\* fnmatch.fnmatch(func_name, pattern)
fnmatch(func_name, pattern, windows) ==
    GlobMatchFrom(normcase(func_name, windows), 1, normcase(pattern, windows), 1)

\* _matches_patterns: some pattern of the list matches
_matches_patterns(func_name, patterns, windows) ==
    \E k \in 1..Len(patterns) : fnmatch(func_name, patterns[k], windows)

\* str.isupper() of the name without its underscores and digits: it has a
\* cased character and no lower-case one
is_all_caps(func_name) ==
    LET kept == SelectSeq(func_name, LAMBDA ch : ch # "_" /\ ch \notin DigitChars)
    IN  /\ \E i \in 1..Len(kept) : IsUpperChar(kept[i])
        /\ \A i \in 1..Len(kept) : ~ IsLowerChar(kept[i])

\* _is_likely_macro: all capitals with an underscore, or a macro pattern
_is_likely_macro(func_name, cfg) ==
    \/ is_all_caps(func_name) /\ (\E i \in 1..Len(func_name) : func_name[i] = "_")
    \/ _matches_patterns(func_name, cfg.patterns.macro_definitions, cfg.windows)

\* the pattern lists of _get_default_config
_get_default_config ==
    [ standard_library  |->
        << <<"s","t","d",":",":","*">>, <<"m","e","m","s","e","t","*">>,
           <<"m","e","m","c","p","y","*">>, <<"s","t","r","c","p","y","*">>,
           <<"s","t","r","l","e","n","*">>, <<"m","a","l","l","o","c","*">>,
           <<"f","r","e","e","*">>, <<"p","r","i","n","t","f","*">>,
           <<"s","p","r","i","n","t","f","*">> >>,
      logging_utility   |->
        << <<"*","L","O","G","*">>, <<"*","l","o","g","*">>,
           <<"*","P","R","I","N","T","*">>, <<"*","P","r","i","n","t","*">>,
           <<"*","A","S","S","E","R","T","*">>, <<"*","C","H","E","C","K","*">>,
           <<"*","T","R","A","C","E","*">> >>,
      macro_definitions |->
        << <<"*","_","R","E","T","U","R","N","*">>, <<"*","_","C","H","E","C","K","*">>,
           <<"O","F","F","S","E","T","_","*">>, <<"G","E","T","_","*">>,
           <<"M","S","G","L","E","N","_","*">>, <<"S","E","T","_","*">>,
           <<"R","E","S","E","T","_","*">>, <<"C","L","E","A","R","_","*">> >>,
      custom_exclusions |-> << >> ]

\* faulty variant: the logging patterns are tried before the standard-library
\* patterns
Branch_LoggingFirst(func, cfg) ==
    IF _is_likely_macro(func, cfg) THEN 1
    ELSE IF _matches_patterns(func, cfg.patterns.custom_exclusions, cfg.windows) THEN 2
    ELSE IF _matches_patterns(func, cfg.patterns.logging_utility, cfg.windows) THEN 4
    ELSE IF _matches_patterns(func, cfg.patterns.standard_library, cfg.windows) THEN 3
    ELSE 5

\* the branch of the if / elif chain of classify that a name takes
Branch(func, cfg) ==
    IF _is_likely_macro(func, cfg) THEN 1
    ELSE IF _matches_patterns(func, cfg.patterns.custom_exclusions, cfg.windows) THEN 2
    ELSE IF _matches_patterns(func, cfg.patterns.standard_library, cfg.windows) THEN 3
    ELSE IF _matches_patterns(func, cfg.patterns.logging_utility, cfg.windows) THEN 4
    ELSE 5

\* the bucket each branch adds the name to
BranchBucket(branch) ==
    << "macros", "logging_utility", "standard_library", "logging_utility", "business" >>[branch]

BucketNames == { "business", "standard_library", "logging_utility", "macros" }

\* faulty variant: every test is an if of its own, so a name is added to
\* the bucket of every rule it matches
classify_EveryMatch(functions, cfg) ==
    [ bucket \in BucketNames |->
        { func \in functions :
            \/ bucket = "macros" /\ _is_likely_macro(func, cfg)
            \/ bucket = "logging_utility"
                 /\ (\/ _matches_patterns(func, cfg.patterns.custom_exclusions, cfg.windows)
                     \/ _matches_patterns(func, cfg.patterns.logging_utility, cfg.windows))
            \/ bucket = "standard_library"
                 /\ _matches_patterns(func, cfg.patterns.standard_library, cfg.windows)
            \/ bucket = "business" /\ Branch(func, cfg) = 5 } ]

\* classify(external_functions): the four sets of the returned dict
classify(functions, cfg) ==
    LET added == { << func, BranchBucket(Branch(func, cfg)) >> : func \in functions }
    IN  [ bucket \in BucketNames |-> { a[1] : a \in { b \in added : b[2] = bucket } } ]

\* classify has not been called
NoClassification ==
    [ called |-> FALSE, input |-> {}, result |-> [ bucket \in BucketNames |-> {} ] ]

(***************************************************************************)
(* SingleFileAnalyzer.get_entry_points and the sibling header.  A header   *)
(* is the sequence of its lines, a line the sequence of its characters.    *)
(***************************************************************************)
\* the characters of a one-letter function name
Text(func_name) == << func_name >>

\* func_name in line
Contains(line, text) ==
    \E i \in 1..(Len(line) - Len(text) + 1) : SubSeq(line, i, i + Len(text) - 1) = text

\* line.strip() at the front: the line from its first non-blank character
RECURSIVE LStrip(_)
LStrip(line) ==
    IF line # << >> /\ Head(line) = " " THEN LStrip(Tail(line)) ELSE line

\* line.strip().startswith(prefix)
StartsWith(line, prefix) ==
    Len(line) >= Len(prefix) /\ SubSeq(line, 1, Len(prefix)) = prefix

\* the lines of the text search that are skipped as comments
IsCommentLine(line) ==
    \/ StartsWith(LStrip(line), << "/", "/" >>)
    \/ StartsWith(LStrip(line), << "/", "*" >>)

\* a line of the header that makes the search record func_name
LineHits(line, func_name) ==
    /\ ~ IsCommentLine(line)
    /\ Contains(line, Text(func_name))
    /\ Contains(line, << "(" >>)

\* no sibling header exists
NoHeaders == [ h |-> None, hpp |-> None ]

\* possible_headers: the first of <base>.h, <base>.hpp that exists
FirstHeader(headers) ==
    IF headers.h # None THEN << [ path |-> "h", lines |-> headers.h[1] ] >>
    ELSE IF headers.hpp # None THEN << [ path |-> "hpp", lines |-> headers.hpp[1] ] >>
    ELSE None

\* _find_header_declarations: {func_name: header path} over the first header
\* that exists
_find_header_declarations(ff, headers) ==
    LET found == FirstHeader(headers)
    IN  IF found = None THEN EmptyDict
        ELSE LET hits == { n \in DOMAIN ff :
                             \E k \in 1..Len(found[1].lines) : LineHits(found[1].lines[k], n) }
             IN  [ n \in hits |-> found[1].path ]

\* faulty variant: the header is consulted before the storage class
Category_HeaderFirst(func_name, func_info, header_functions) ==
    IF func_name \in DOMAIN header_functions
    THEN [ category |-> "API", declaration_location |-> header_functions[func_name] ]
    ELSE IF func_info.is_static
    THEN [ category |-> "INTERNAL", declaration_location |-> "" ]
    ELSE [ category |-> "EXPORTED", declaration_location |-> "" ]

\* the classification of one function by get_entry_points
Category(func_name, func_info, header_functions) ==
    IF func_info.is_static
    THEN [ category |-> "INTERNAL", declaration_location |-> "" ]
    ELSE IF func_name \in DOMAIN header_functions
    THEN [ category |-> "API", declaration_location |-> header_functions[func_name] ]
    ELSE [ category |-> "EXPORTED", declaration_location |-> "" ]

\* the keys of file_functions in insertion order, for a dict filled from
\* `file` alone: each name at its first definition
RECURSIVE KeysInOrder(_, _, _)
KeysInOrder(file, i, seen) ==
    IF i > Len(file) THEN << >>
    ELSE IF file[i].name = "" \/ file[i].name \in seen
    THEN KeysInOrder(file, i + 1, seen)
    ELSE << file[i].name >> \o KeysInOrder(file, i + 1, seen \cup { file[i].name })

\* get_entry_points(source_code, file_path): one EntryPointInfo per key
get_entry_points(ff, file, headers) ==
    LET header_functions == _find_header_declarations(ff, headers)
        keys == KeysInOrder(file, 1, {})
    IN  [ k \in 1..Len(keys) |->
            LET c == Category(keys[k], ff[keys[k]], header_functions)
            IN  [ name                 |-> keys[k],
                  category             |-> c.category,
                  line_number          |-> ff[keys[k]].line,
                  signature            |-> ff[keys[k]].signature,
                  declaration_location |-> c.declaration_location ] ]

\* get_entry_points has not been called
NoEntryPoints == [ called |-> FALSE, list |-> << >> ]

(***************************************************************************)
(* BranchAnalyzer.  A syntax node is its type and the sequence of its      *)
(* children.                                                               *)
(***************************************************************************)
SyntaxLeaf(type) == [ type |-> type, children |-> << >> ]
SyntaxNode(type, children) == [ type |-> type, children |-> children ]

\* sum of f[i] over the indices of a sequence of numbers
RECURSIVE SumSeq(_)
SumSeq(numbers) == IF numbers = << >> THEN 0 ELSE Head(numbers) + SumSeq(Tail(numbers))

\* _get_function_body: the first compound_statement child, or None
_get_function_body(func_node) ==
    LET found == SelectSeq(func_node.children, LAMBDA c : c.type = "compound_statement")
    IN  IF found = << >> THEN None ELSE << found[1] >>

\* _count_nodes: number of nodes of the subtree whose type is in node_types
RECURSIVE _count_nodes(_, _)
_count_nodes(node, node_types) ==
    (IF node.type \in node_types THEN 1 ELSE 0)
    + SumSeq([ i \in 1..Len(node.children) |-> _count_nodes(node.children[i], node_types) ])

\* concatenation of a sequence of sequences
RECURSIVE Flatten(_)
Flatten(seqs) == IF seqs = << >> THEN << >> ELSE Head(seqs) \o Flatten(Tail(seqs))

\* _find_all_nodes: the nodes of the subtree with the type, in pre-order
RECURSIVE _find_all_nodes(_, _)
_find_all_nodes(node, node_type) ==
    (IF node.type = node_type THEN << node >> ELSE << >>)
    \o Flatten([ i \in 1..Len(node.children) |-> _find_all_nodes(node.children[i], node_type) ])

\* _count_switch_cases: for every switch_statement of the subtree, the
\* case_statement nodes below it, added up
_count_switch_cases(node) ==
    LET switch_nodes == _find_all_nodes(node, "switch_statement")
    IN  SumSeq([ i \in 1..Len(switch_nodes) |->
                   _count_nodes(switch_nodes[i], { "case_statement" }) ])

\* _count_early_returns: all return statements but one
_count_early_returns(node) ==
    LET return_nodes == _find_all_nodes(node, "return_statement")
    IN  IF Len(return_nodes) > 1 THEN Len(return_nodes) - 1 ELSE 0

\* _count_logical_operators: binary expressions with a && or || child
_count_logical_operators(node) ==
    LET logical_ops == _find_all_nodes(node, "binary_expression")
    IN  Len(SelectSeq(logical_ops,
            LAMBDA op_node : \E k \in 1..Len(op_node.children) :
                                 op_node.children[k].type \in { "&&", "||" }))

\* _count_ternary_operators
_count_ternary_operators(node) == _count_nodes(node, { "conditional_expression" })

\* analyze_function(func_node, source_code): the counts of BranchAnalysis
analyze_function(func_node) ==
    LET body == _get_function_body(func_node)
    IN  IF body = None
        THEN [ cyclomatic_complexity |-> 1, if_count |-> 0, switch_count |-> 0,
               switch_cases |-> 0, loop_count |-> 0, early_return_count |-> 0 ]
        ELSE LET body_node == body[1]
                 if_count == _count_nodes(body_node, { "if_statement" })
                 switch_count == _count_nodes(body_node, { "switch_statement" })
                 switch_cases == _count_switch_cases(body_node)
                 loop_count == _count_nodes(body_node,
                                   { "for_statement", "while_statement", "do_statement" })
                 decision_points == if_count + loop_count + switch_cases
                                    + _count_logical_operators(body_node)
                                    + _count_ternary_operators(body_node)
             IN  [ cyclomatic_complexity |-> 1 + decision_points,
                   if_count              |-> if_count,
                   switch_count          |-> switch_count,
                   switch_cases          |-> switch_cases,
                   loop_count            |-> loop_count,
                   early_return_count    |-> _count_early_returns(body_node) ]

\* no function was given, analyze_function was not called
NoFunction == [ shape |-> << >>, node |-> SyntaxLeaf("function_definition") ]
NoAnalysis == [ called |-> FALSE, analysis |-> analyze_function(SyntaxLeaf("function_definition")) ]

(***************************************************************************)
(* StructureSearcher: extraction of a definition from the lines of a file. *)
(* Line numbers are those of the file (from 1), indices those of the code  *)
(* (from 0).                                                               *)
(***************************************************************************)
\* the backward scan looks at no more than this many lines
BackwardWindow == 100

\* lines above the opening brace searched for the keyword
KeywordLookback == 5

\* max_lines of the forward scan
MaxForwardLines == 60

\* line.count(ch)
CountChar(line, ch) == Cardinality({ i \in 1..Len(line) : line[i] = ch })

\* line.rstrip()
RECURSIVE RStrip(_)
RStrip(line) ==
    IF line # << >> /\ line[Len(line)] = " " THEN RStrip(SubSeq(line, 1, Len(line) - 1))
    ELSE line

Max0(n) == IF n > 0 THEN n ELSE 0

\* lines[j].strip() starts with typedef, struct or class
IsKeywordLine(line) ==
    \/ StartsWith(LStrip(line), << "t","y","p","e","d","e","f" >>)
    \/ StartsWith(LStrip(line), << "s","t","r","u","c","t" >>)
    \/ StartsWith(LStrip(line), << "c","l","a","s","s" >>)

\* for j in range(i, max(0, i - 5), -1): the first keyword line, else i
KeywordStart(lines, i) ==
    LET js == { j \in (Max0(i - KeywordLookback) + 1)..i : IsKeywordLine(lines[j + 1]) }
    IN  IF js = {} THEN i ELSE CHOOSE j \in js : \A k \in js : k <= j

\* for i in range(end_idx, max(0, end_idx - 100), -1), from index i on with
\* the loop's brace_count and found_close_brace
RECURSIVE ScanBackward(_, _, _, _, _)
ScanBackward(lines, i, stop, brace_count, found_close_brace) ==
    IF i <= stop THEN None
    ELSE LET line == lines[i + 1]
             found == found_close_brace \/ Contains(line, << "}" >>)
             count == brace_count + CountChar(line, "}") - CountChar(line, "{")
         IN  IF found /\ count = 0 /\ Contains(line, << "{" >>)
             THEN << KeywordStart(lines, i) >>
             ELSE ScanBackward(lines, i - 1, stop, count, found)

\* _find_struct_start_backward(lines, end_idx): Optional index
_find_struct_start_backward(lines, end_idx) ==
    ScanBackward(lines, end_idx, Max0(end_idx - BackwardWindow), 0, FALSE)

\* the forward scan of a match on an opening line: the index of the last
\* line taken, from index i on
RECURSIVE ScanForward(_, _, _, _, _)
ScanForward(lines, i, start_idx, brace_count, found_brace) ==
    LET line == lines[i + 1]
        count == brace_count + CountChar(line, "{") - CountChar(line, "}")
        found == found_brace \/ Contains(line, << "{" >>)
        last == IF start_idx + MaxForwardLines < Len(lines)
                THEN start_idx + MaxForwardLines ELSE Len(lines)
    IN  IF \/ found /\ count = 0 /\ Contains(line, << "}" >>)
           \/ ~ found /\ Contains(line, << ";" >>)
           \/ i + 1 >= last
        THEN i
        ELSE ScanForward(lines, i + 1, start_idx, count, found)

\* the text returned for the lines start_idx..end_idx: the line number of
\* the header comment and the right-stripped lines
Definition(lines, start_idx, end_idx) ==
    [ found     |-> TRUE,
      from_line |-> start_idx + 1,
      lines     |-> [ k \in 1..(end_idx - start_idx + 1) |-> RStrip(lines[start_idx + k]) ] ]

NotFound == [ found |-> FALSE, from_line |-> 0, lines |-> << >> ]

\* the line appended to a definition cut after max_lines lines
TruncationMark == << " "," "," "," ","/","/"," ",".",".","." >>

\* _extract_definition_from_file(file_path, line_num, content, struct_name)
_extract_definition_from_file(lines, line_num, content) ==
    LET match_idx == line_num - 1
    IN  IF StartsWith(LStrip(content), << "}" >>)
        THEN LET start_idx == _find_struct_start_backward(lines, match_idx)
             IN  IF start_idx = None THEN NotFound
                 ELSE Definition(lines, start_idx[1], match_idx)
        ELSE LET end_idx == ScanForward(lines, match_idx, match_idx, 0, FALSE)
                 taken == Definition(lines, match_idx, end_idx)
                 line == lines[end_idx + 1]
                 braces == SumSeq([ k \in 1..Len(taken.lines) |->
                                      CountChar(taken.lines[k], "{")
                                      - CountChar(taken.lines[k], "}") ])
                 opened == \E k \in 1..Len(taken.lines) : Contains(taken.lines[k], << "{" >>)
                 complete == \/ opened /\ braces = 0 /\ Contains(line, << "}" >>)
                             \/ ~ opened /\ Contains(line, << ";" >>)
             IN  IF ~ complete /\ Len(taken.lines) >= MaxForwardLines
                 THEN [ taken EXCEPT !.lines = Append(@, TruncationMark) ]
                 ELSE taken

\* no header was read
NoHeaderFile == [ prefix |-> 0, lines |-> << >> ]

\* _extract_definition_from_file has not been called
NoExtraction == [ called |-> FALSE, line_num |-> 0, result |-> NotFound ]

(***************************************************************************)
(* Reading a multi-line macro: ConstantExtractor and MacroExtractor.       *)
(***************************************************************************)
\* the constant extractor reads no more than this many lines
MaxMacroLines == 20

\* line.rstrip().endswith('\\')
EndsWithBackslash(line) ==
    LET stripped == RStrip(line)
    IN  stripped # << >> /\ stripped[Len(stripped)] = "\\"

\* ConstantExtractor._read_multiline_macro: the while loop from index
\* current_line on, with the lines read so far
RECURSIVE ReadBounded(_, _, _)
ReadBounded(lines, current_line, macro_lines) ==
    IF current_line >= Len(lines) THEN macro_lines
    ELSE LET line == RStrip(lines[current_line + 1])
             read == Append(macro_lines, line)
         IN  IF ~ EndsWithBackslash(line) THEN read
             ELSE IF Len(read) >= MaxMacroLines THEN read
             ELSE ReadBounded(lines, current_line + 1, read)

\* ConstantExtractor._read_multiline_macro(file_path, start_line): the lines
\* joined into the returned text ("" outside the file)
constant_read_multiline_macro(lines, start_line) ==
    IF start_line < 1 \/ start_line > Len(lines) THEN << >>
    ELSE ReadBounded(lines, start_line - 1, << >>)

\* MacroExtractor._read_multiline_macro: for i in range(start_line - 1,
\* len(lines)), from index i on
RECURSIVE ReadToEnd(_, _, _)
ReadToEnd(lines, i, macro_lines) ==
    IF i >= Len(lines) THEN macro_lines
    ELSE LET read == Append(macro_lines, lines[i + 1])
         IN  IF ~ EndsWithBackslash(lines[i + 1]) THEN read
             ELSE ReadToEnd(lines, i + 1, read)

\* the line without its trailing blanks and continuation backslash
WithoutContinuation(line) ==
    LET stripped == RStrip(line)
    IN  IF EndsWithBackslash(stripped)
        THEN RStrip(SubSeq(stripped, 1, Len(stripped) - 1))
        ELSE stripped

\* MacroExtractor._read_multiline_macro(file_path, start_line) on a file
\* that exists: the lines joined into the returned text
macro_read_multiline_macro(lines, start_line) ==
    LET macro_lines == ReadToEnd(lines, start_line - 1, << >>)
    IN  [ k \in 1..Len(macro_lines) |-> WithoutContinuation(macro_lines[k]) ]

NoMacroFile == [ continued |-> 0, closed |-> TRUE, start |-> 1, lines |-> << >> ]
NoMacroRead == [ called |-> FALSE, by |-> "", start_line |-> 0, lines |-> << >> ]

(***************************************************************************)
(* The state machine: one analyzer, one analyzed file, any traces.         *)
(***************************************************************************)
Idle == [ status |-> "idle", func_name |-> "", max_depth |-> 0 ]

NoTrace == [ called |-> FALSE, func_name |-> "", max_depth |-> 0, result |-> None ]

\* names a caller may ask to trace
TraceNames == { DefNames[i] : i \in 1..Len(DefNames) }

\* max_depth arguments tried
Depths == ((0 - 1)..MaxDepth) \cup {DefaultMaxDepth}

\* no name has been traced since the analysis
NothingTraced == [ first |-> [ n \in TraceNames |-> <<>> ], again |-> FALSE ]

\* no boundary-mode analysis has been asked for
NoRequest == [ target_function |-> "", trace_depth |-> 0 ]

\* no aggregation has been made
NoDeps == [ called |-> FALSE, root |-> "", internal |-> {}, external |-> {},
            descents |-> <<>> ]

\* the project has not been indexed (boundary mode indexes nothing)
NoProject == EmptyDict

\* the components of the analyzer that the call-chain analysis does not
\* touch, as the constructor leaves them when no configuration file exists
ClassifierInit ==
    /\ cls_config = [ windows |-> FALSE, patterns |-> _get_default_config ]
    /\ cls_result = NoClassification

\* no sibling header on disk, get_entry_points not called
ExposureInit ==
    /\ header = NoHeaders
    /\ entry_points = NoEntryPoints

\* a BranchAnalyzer that was given no function
BranchesInit ==
    /\ br_func = NoFunction
    /\ br_result = NoAnalysis

\* a StructureSearcher that has read no file
StructuresInit ==
    /\ ss_file = NoHeaderFile
    /\ ss_result = NoExtraction

(***************************************************************************)
(* analyze_file as its caller sees it: the returned FileBoundary, or the   *)
(* exception raised.                                                       *)
(***************************************************************************)
\* FileBoundary(...): the six collections of a boundary
FileBoundary(fi, fe, di, de, fds, ff) ==
    [ internal_functions       |-> fi,
      external_functions       |-> fe,
      internal_data_structures |-> di,
      external_data_structures |-> de,
      file_data_structures     |-> fds,
      file_functions           |-> ff ]

EmptyBoundary == FileBoundary({}, {}, {}, {}, EmptyDict, EmptyDict)

\* what the file at file_path is on disk: absent, without any byte that
\* _read_file can return, of a source the parser gives no tree for, or a
\* source that parses
Conditions == { "missing", "unreadable", "no_tree", "parses" }

\* analyze_file before step 1: the exception the call raises for a file in
\* that condition, "" when it goes on to index the file
analyze_file_raises(condition) ==
    IF condition = "missing" THEN "FileNotFoundError"
    ELSE IF condition = "unreadable" THEN "ValueError"
    ELSE IF condition = "no_tree" THEN "ValueError"
    ELSE ""

\* faulty variant: the fields of the boundary are the analyzer's own
\* collections
HeldAfter_Shared(copied, own) == own

\* a field of a boundary returned earlier, after a later call: the boundary
\* holds the copy made when it was built, `own` is the analyzer's collection
HeldAfter(copied, own) == copied

NoOutcome == [ status |-> "none", error |-> "", boundary |-> EmptyBoundary, file |-> "" ]
NotHeld == [ kept |-> FALSE, at_return |-> EmptyBoundary, now |-> EmptyBoundary ]

(***************************************************************************)
(* Start-up of analyze.py: the mode argument and the classification        *)
(* configuration.  A mode string is the sequence of its characters.        *)
(***************************************************************************)
\* str.lower()
lower(text) == [ i \in 1..Len(text) |-> LowerOf(text[i]) ]

\* the keys of mode_map in get_mode_from_string, in order
ModeKeys ==
    << << "f", "u", "l", "l" >>,
       << "f", "u", "l", "l", "_", "p", "r", "o", "j", "e", "c", "t" >>,
       << "s", "i", "n", "g", "l", "e" >>,
       << "s", "i", "n", "g", "l", "e", "_", "f", "i", "l", "e" >>,
       << "b", "o", "u", "n", "d", "a", "r", "y" >>,
       << "d", "e", "e", "p" >>,
       << "i", "n", "c", "r", "e", "m", "e", "n", "t", "a", "l" >>,
       << "l", "i", "g", "h", "t" >>,
       << "l", "i", "g", "h", "t", "w", "e", "i", "g", "h", "t" >> >>

\* the AnalysisMode of each key
ModeValues ==
    << "FULL_PROJECT", "FULL_PROJECT",
       "SINGLE_FILE_BOUNDARY", "SINGLE_FILE_BOUNDARY", "SINGLE_FILE_BOUNDARY",
       "SINGLE_FILE_BOUNDARY", "INCREMENTAL", "LIGHTWEIGHT", "LIGHTWEIGHT" >>

\* get_mode_from_string(mode_str): the mode, or ValueError with the string
\* and the available mode names
get_mode_from_string(mode_str) ==
    LET mode_str_lower == lower(mode_str)
    IN  IF \E k \in 1..Len(ModeKeys) : ModeKeys[k] = mode_str_lower
        THEN [ raised |-> FALSE,
               mode |-> ModeValues[CHOOSE k \in 1..Len(ModeKeys) : ModeKeys[k] = mode_str_lower],
               unknown |-> << >>, available |-> << >> ]
        ELSE [ raised |-> TRUE, mode |-> "", unknown |-> mode_str, available |-> ModeKeys ]

\* what .simple_ast_config.json is: not there, a JSON object, a JSON value
\* that is no object, or no JSON at all
ConfigFiles == { "absent", "object", "not_object", "not_json" }

\* ExternalFunctionClassifier._load_config(None): the configuration of the
\* file, or the built-in one, with a printed warning when the file is there
\* and does not load
_load_config(config_file) ==
    IF config_file = "object"
    THEN [ config |-> "external_function_classification", warning |-> FALSE ]
    ELSE IF config_file = "absent"
    THEN [ config |-> "_get_default_config", warning |-> FALSE ]
    ELSE [ config |-> "_get_default_config", warning |-> TRUE ]

NoCommand == [ mode_str |-> << >>, config_file |-> "absent" ]
NotRun == [ status |-> "not_run", exit_code |-> 0, error |-> << >>, mode |-> "",
            config |-> "", warning |-> FALSE, analyzed |-> FALSE ]

(***************************************************************************)
(* Definition lookups over the external text search.  A run of the search  *)
(* tool either exceeds the timeout or exits with a return code and the     *)
(* lines of its output.                                                    *)
(***************************************************************************)
TimedOut == [ kind |-> "timeout", returncode |-> 0, stdout |-> << >> ]
Exited(returncode, stdout) == [ kind |-> "exit", returncode |-> returncode, stdout |-> stdout ]

\* an output line `path:line:content`; `definition` is what reading the
\* file at that line gives the lookup, None when it finds no definition
MatchLine(line_num, definition) ==
    [ parses |-> TRUE, line_num |-> line_num, definition |-> definition ]

\* an output line that _parse_grep_line gives None for
OtherLine == [ parses |-> FALSE, line_num |-> 0, definition |-> None ]

\* stdout.splitlines()[:max_results]
FirstLines(stdout, max_results) ==
    SubSeq(stdout, 1, IF Len(stdout) < max_results THEN Len(stdout) ELSE max_results)

\* what a call gives its caller: a value, or an exception
Returned(value) == [ raised |-> FALSE, value |-> value ]
Raised == [ raised |-> TRUE, value |-> << >> ]

\* faulty variant: no handler around the run of the script
_search_via_script_NoHandler(search_run, max_results) ==
    IF search_run.kind = "timeout" THEN Raised
    ELSE IF search_run.returncode # 0 /\ search_run.returncode # 1 THEN Returned(<< >>)
    ELSE Returned(SelectSeq(FirstLines(search_run.stdout, max_results), LAMBDA l : l.parses))

\* GrepSearcher._search_via_script, and search_content which returns what
\* it returns: the parsed lines of the output, [] on a timeout, on any
\* other exception and on a return code other than 0 and 1
_search_via_script(search_run, max_results) ==
    IF search_run.kind = "timeout" THEN Returned(<< >>)
    ELSE IF search_run.returncode # 0 /\ search_run.returncode # 1 THEN Returned(<< >>)
    ELSE Returned(SelectSeq(FirstLines(search_run.stdout, max_results), LAMBDA l : l.parses))

\* StructureSearcher.search from pattern group k on: the first definition
\* extracted from the best match of a group, None after the last group
RECURSIVE SearchGroups(_, _)
SearchGroups(runs, k) ==
    IF k > 3 THEN Returned(None)
    ELSE LET matches == _search_via_script(runs[k], 10)
         IN  IF matches.raised THEN Raised
             ELSE IF matches.value = << >> THEN SearchGroups(runs, k + 1)
             ELSE IF matches.value[1].definition # None
                  THEN Returned(matches.value[1].definition)
                  ELSE SearchGroups(runs, k + 1)

structure_search(runs) == SearchGroups(runs, 1)

\* ConstantSearcher.search: the first match, None without a match
constant_search(runs) ==
    LET matches == _search_via_script(runs[1], 5)
    IN  IF matches.raised THEN Raised
        ELSE IF matches.value = << >> THEN Returned(None)
        ELSE Returned(<< matches.value[1].line_num >>)

\* MacroExtractor.extract_macro_definition without a cached entry: the
\* definition at the first match, None without a match and on any exception
extract_macro_definition(runs) ==
    LET results == _search_via_script(runs[1], 5)
    IN  IF results.raised THEN Returned(None)
        ELSE IF results.value = << >> THEN Returned(None)
        ELSE Returned(results.value[1].definition)

\* ConstantExtractor._search_with_grep for one identifier: constants[identifier]
\* from the #define search, else from the enum search; None is an absent key
_search_with_grep(runs) ==
    LET defines == _search_via_script(runs[1], 1)
        enums == _search_via_script(runs[2], 1)
    IN  IF defines.raised THEN Raised
        ELSE IF defines.value # << >> THEN Returned(<< defines.value[1].line_num >>)
        ELSE IF enums.raised THEN Raised
        ELSE IF enums.value # << >> THEN Returned(<< enums.value[1].line_num >>)
        ELSE Returned(None)

NoLookup == << TimedOut, TimedOut, TimedOut >>
NoLookupResult == [ called |-> FALSE, by |-> "", raised |-> FALSE, value |-> None ]

(***************************************************************************)
(* The batch of traces of a boundary-mode analysis.                        *)
(***************************************************************************)
\* the deepest nesting of activations of _trace_function_calls_recursive
\* that the call with these arguments reaches, itself counted
RECURSIVE TraceFrames(_, _, _, _, _)
TraceFrames(ff, func_name, visited, depth, max_depth) ==
    IF DepthReached(depth, max_depth) THEN 1
    ELSE IF NotInFile(ff, func_name) THEN 1
    ELSE IF StopsAtRevisit(func_name, visited) THEN 1
    ELSE LET call_expressions == ff[func_name].node.calls
             below == { TraceFrames(ff, CalledName(call_expressions[i].text),
                                    visited \cup {func_name}, depth + 1, max_depth)
                        : i \in { j \in 1..Len(call_expressions) :
                                    ~ _is_standard_library_function(
                                          CalledName(call_expressions[j].text)) } }
         IN  1 + (IF below = {} THEN 0 ELSE CHOOSE m \in below : \A o \in below : o <= m)

\* trace_call_chain(func_name, source_code, max_depth) raises RecursionError
trace_raises(ff, func_name, max_depth) ==
    /\ func_name \in DOMAIN ff
    /\ TraceFrames(ff, func_name, {}, 0, max_depth) > RecursionLimit

\* entry points whose own trace returns a tree
TracesWell(ff, eps, trace_depth) ==
    { n \in eps : /\ ~ trace_raises(ff, n, trace_depth)
                  /\ trace_call_chain(ff, n, trace_depth) # None }

NoBatch == [ status |-> "none", error |-> "", entry_points |-> {}, traced_well |-> {} ]

(***************************************************************************)
(* The report of one function: the sections of the function and of its     *)
(* internal dependencies.                                                  *)
(***************************************************************************)
\* direct_internal_deps: the names of the children of the function's call
\* tree that are not external, in child order
direct_internal_deps(cc, func_name) ==
    IF func_name \in DOMAIN cc
    THEN LET kept == SelectSeq(cc[func_name].children, LAMBDA child : ~ child.is_external)
         IN  [ i \in 1..Len(kept) |-> kept[i].function_name ]
    ELSE << >>

\* faulty variant: the recursive call was handed a copy of visited
ReportVisitedAfter_Copy(own, passed) == own

\* the caller's visited set after a recursive call that was handed the set
\* itself
ReportVisitedAfter(own, passed) == passed

\* _generate_recursive_function_info(func_name, lines, number_prefix,
\* visited, ...): `acc` holds visited and the sections appended to lines; a
\* number prefix "1.2" is the sequence <<1, 2>>
RECURSIVE _generate_recursive_function_info(_, _, _, _)
RECURSIVE ExpandDeps(_, _, _, _, _)

_generate_recursive_function_info(cc, func_name, number_prefix, acc) ==
    IF func_name \in acc.visited THEN acc
    ELSE ExpandDeps(cc, direct_internal_deps(cc, func_name), 1, number_prefix,
                    [ visited  |-> acc.visited \cup {func_name},
                      sections |-> Append(acc.sections,
                                          [ function_name |-> func_name,
                                            number_prefix |-> number_prefix ]) ])

\* the loop over direct_internal_deps, from dependency idx on
ExpandDeps(cc, dep_funcs, idx, number_prefix, acc) ==
    IF idx > Len(dep_funcs) THEN acc
    ELSE LET r == _generate_recursive_function_info(cc, dep_funcs[idx],
                                                    Append(number_prefix, idx), acc)
         IN  ExpandDeps(cc, dep_funcs, idx + 1, number_prefix,
                        [ r EXCEPT !.visited = ReportVisitedAfter(acc.visited, r.visited) ])

NoReport == [ called |-> FALSE, func_name |-> "", sections |-> << >> ]

\* no macro was read
MacroReadingInit ==
    /\ mx_file = NoMacroFile
    /\ mx_result = NoMacroRead

\* no analyze_file call was observed by a caller
CallersInit ==
    /\ outcome = NoOutcome
    /\ held = NotHeld

\* analyze.py was not run
StartupInit ==
    /\ command = NoCommand
    /\ process = NotRun

\* no definition was looked up
LookupsInit ==
    /\ lookup = NoLookup
    /\ lookup_result = NoLookupResult

LaterToolsInit ==
    /\ StartupInit
    /\ LookupsInit
    /\ batch = NoBatch
    /\ report = NoReport

MoreToolsInit ==
    /\ MacroReadingInit
    /\ CallersInit
    /\ LaterToolsInit

ToolsInit ==
    /\ ClassifierInit
    /\ ExposureInit
    /\ BranchesInit
    /\ StructuresInit
    /\ MoreToolsInit

\* the analysis state of a CppProjectAnalyzer in boundary mode
BoundaryInit ==
    /\ file_functions = EmptyDict
    /\ internal_functions = {}
    /\ external_functions = {}
    /\ cur_file = NoFile
    /\ analyses = 0
    /\ last_trace = NoTrace
    /\ traced = NothingTraced
    /\ run = Idle
    /\ stack = <<>>
    /\ call_chains = EmptyDict
    /\ deps = NoDeps
    /\ request = NoRequest
    /\ file_data_structures = EmptyDict
    /\ internal_data_structures = {}
    /\ external_data_structures = {}
    /\ full_index = FALSE
    /\ project = NoProject
    /\ symbol_table = EmptyDict
    /\ project_trace = NoTrace

\* CppProjectAnalyzer(project_root, mode): the SingleFileAnalyzer of the
\* boundary modes, or the ProjectIndexer and CallChainTracer of full mode
Init ==
    /\ ToolsInit
    /\ file_functions = EmptyDict
    /\ internal_functions = {}
    /\ external_functions = {}
    /\ cur_file = NoFile
    /\ analyses = 0
    /\ last_trace = NoTrace
    /\ traced = NothingTraced
    /\ run = Idle
    /\ stack = <<>>
    /\ call_chains = EmptyDict
    /\ deps = NoDeps
    /\ request = NoRequest
    /\ file_data_structures = EmptyDict
    /\ internal_data_structures = {}
    /\ external_data_structures = {}
    /\ full_index \in BOOLEAN
    /\ project = NoProject
    /\ symbol_table = EmptyDict
    /\ project_trace = NoTrace

\* analyze_file(file_path): steps 1 to 4 on a translation unit
AnalyzeSteps(unit) ==
    LET file == unit.functions
        ff == _index_file_functions(file, file_functions)
        fds == _index_file_data_structures(unit.structs, file_data_structures)
    IN  /\ ~ full_index
        /\ file_functions' = ff
        /\ internal_functions' = internal_functions \cup IndexedNames(file)
        /\ external_functions' = external_functions \cup NewExternals(file, ff)
        /\ file_data_structures' = fds
        /\ internal_data_structures' = internal_data_structures \cup StructNames(unit.structs)
        /\ external_data_structures' =
               external_data_structures \cup NewExternalTypes(TypeIdentifiers(unit), fds)
        /\ cur_file' = file
        /\ analyses' = analyses + 1
        /\ last_trace' = NoTrace
        /\ traced' = NothingTraced
        /\ run' = Idle
        /\ stack' = <<>>

\* analyze_file by a caller that drops the returned boundary
DoAnalyzeUnit(unit) ==
    /\ AnalyzeSteps(unit)
    /\ UNCHANGED <<full_mode, tools>>

\* analyze_file on a file that defines and names no data structure
DoAnalyze(file) == DoAnalyzeUnit(UnitOf(file, << >>, << >>))

\* the first analyze_file call of a fresh analyzer
AnalyzeFile ==
    /\ cur_file = NoFile /\ file_functions = EmptyDict
    /\ run.status # "running"
    /\ \E file \in Files \ {NoFile} : DoAnalyze(file)
    /\ UNCHANGED aggregation

\* trace_call_chain(func_name, source_code, max_depth)
TraceCallChain ==
    \E func_name \in TraceNames, max_depth \in Depths :
        /\ ~ full_index
        /\ last_trace' = [ called    |-> TRUE,
                           func_name |-> func_name,
                           max_depth |-> max_depth,
                           result    |-> trace_call_chain(file_functions, func_name, max_depth) ]
        /\ UNCHANGED <<analyzer, analyses, traced, stepping, aggregation, full_mode, tools, data_structures>>

\* the other file of a generated project: none, or one definition, without
\* calls, of the second name an entry file may define (or only call)
OtherFiles == { NoFile, << FuncDef(1, DefNames[2], FALSE, <<>>) >> }

\* generated projects: the entry file alone, or with the other file, listed
\* by the directory walk before or after it
Projects ==
    { [ files |-> [ path \in {EntryPath} |-> f ], cpp_files |-> << EntryPath >> ]
        : f \in FilesWithin(MaxProjectSites) \ {NoFile} }
    \cup
    { [ files |-> [ path \in {EntryPath, OtherPath} |->
                      IF path = EntryPath THEN f ELSE o ],
        cpp_files |-> order ]
        : f \in FilesWithin(MaxProjectSites) \ {NoFile},
          o \in OtherFiles \ {NoFile},
          order \in { << EntryPath, OtherPath >>, << OtherPath, EntryPath >> } }

\* trace_depth arguments of a full-project analysis
ProjectDepths == (0..MaxProjectDepth) \cup {TracerMaxDepth}

\* CppProjectAnalyzer in full mode: index_project
IndexProject ==
    /\ full_index
    /\ project = NoProject
    /\ \E p \in Projects :
          /\ project' = p.files
          /\ symbol_table' = index_project(p.files, p.cpp_files)
    /\ project_trace' = NoTrace
    /\ UNCHANGED <<analyzer, analyses, observed, stepping, aggregation, full_index, tools, data_structures>>

\* _analyze_file_full_mode for the entry file: tracer.max_depth =
\* trace_depth, then trace_from_entry_point(ep.name, rel_path)
TraceFromEntryPoint ==
    /\ project # NoProject
    /\ \E func_name \in TraceNames, trace_depth \in ProjectDepths :
          project_trace' =
              [ called    |-> TRUE,
                func_name |-> func_name,
                max_depth |-> trace_depth,
                result    |-> trace_from_entry_point(symbol_table, project, func_name,
                                                     EntryPath, trace_depth) ]
    /\ UNCHANGED <<analyzer, analyses, observed, stepping, aggregation,
                   full_index, project, symbol_table, tools, data_structures>>

Next == AnalyzeFile \/ TraceCallChain \/ IndexProject \/ TraceFromEntryPoint

Spec == Init /\ [][Next]_vars

(***************************************************************************)
(* Reading a traced tree.                                                  *)
(***************************************************************************)
\* every node of the tree under `node`, with the names of its ancestors
\* from the root down (`anc`)
RECURSIVE Occurrences(_, _)
Occurrences(node, anc) ==
    { [ node |-> node, anc |-> anc ] } \cup
    UNION { Occurrences(node.children[i], Append(anc, node.function_name))
            : i \in 1..Len(node.children) }

Range(seq) == { seq[i] : i \in 1..Len(seq) }

NoRepeat(seq) == \A i, j \in 1..Len(seq) : i # j => seq[i] # seq[j]

\* the nodes of the tree the last trace returned (none when it returned None)
TracedNodes ==
    IF last_trace.result = None THEN {} ELSE Occurrences(last_trace.result[1], <<>>)

\* the nodes of the tree the last trace_from_entry_point returned
ProjectTracedNodes ==
    IF project_trace.result = None THEN {} ELSE Occurrences(project_trace.result[1], <<>>)

\* C1: in every tree trace_call_chain returns, a node named like one of its
\* ancestors is marked is_recursive and has no children, and the names of the
\* ancestors of any node are pairwise different (a name repeats on a
\* root-to-node path only as that marked, childless last node).
C1_RecursiveLeaf ==
    \A o \in TracedNodes :
        /\ NoRepeat(o.anc)
        /\ o.node.function_name \in Range(o.anc)
             => o.node.is_recursive /\ o.node.children = <<>>

\* a returned tree holds a node that repeats the name of an ancestor two
\* levels up (an indirect cycle was cut)
C1_Witness ==
    \E o \in TracedNodes :
        /\ Len(o.anc) >= 2
        /\ o.node.function_name = o.anc[1]
        /\ o.node.is_recursive

(***************************************************************************)
(* The call graph of a function map, for stating what a tree must hold.    *)
(***************************************************************************)
\* the call sites of a function body that the tracer does not skip
TracedSites(ff, func_name) ==
    SelectSeq(ff[func_name].node.calls,
              LAMBDA c : ~ _is_standard_library_function(CalledName(c.text)))

\* functions of the map called (by a traced call site) from func_name
InternalCallees(ff, func_name) ==
    { CalledName(c.text) : c \in Range(TracedSites(ff, func_name)) } \cap DOMAIN ff

RECURSIVE CallClosure(_, _)
CallClosure(ff, S) ==
    LET more == UNION { InternalCallees(ff, f) : f \in S }
    IN  IF more \subseteq S THEN S ELSE CallClosure(ff, S \cup more)

\* functions reached from func_name by one call or more
ReachedFrom(ff, func_name) == CallClosure(ff, InternalCallees(ff, func_name))

\* some function on a call path from `entry` can reach itself
HasRecursion(ff, entry) ==
    \E g \in {entry} \cup ReachedFrom(ff, entry) : g \in ReachedFrom(ff, g)

\* names and flags of a tree, without lines and signatures
RECURSIVE Shape(_)
Shape(node) ==
    [ name |-> node.function_name,
      ext  |-> node.is_external,
      rec  |-> node.is_recursive,
      kids |-> [ i \in 1..Len(node.children) |-> Shape(node.children[i]) ] ]

Leaf(name, ext, rec) == [ name |-> name, ext |-> ext, rec |-> rec, kids |-> <<>> ]
Inner(name, kids)    == [ name |-> name, ext |-> FALSE, rec |-> FALSE, kids |-> kids ]

\* the function map of the entry file of the indexed project
EntryFunctions == _index_file_functions(project[EntryPath], EmptyDict)

\* C3: in a tree traced by either tracer, a node is marked is_recursive only
\* if its name is the name of one of its ancestors (marks made under one
\* sibling are not seen under the next), and a tree traced from an entry
\* point whose call graph has no recursion holds no is_recursive node.
C3_NoFalseCycle ==
    /\ \A o \in TracedNodes \cup ProjectTracedNodes :
          o.node.is_recursive => o.node.function_name \in Range(o.anc)
    /\ (last_trace.called /\ last_trace.func_name \in DOMAIN file_functions
          /\ ~ HasRecursion(file_functions, last_trace.func_name))
         => \A o \in TracedNodes : ~ o.node.is_recursive
    /\ (project_trace.called /\ project_trace.func_name \in DOMAIN EntryFunctions
          /\ ~ HasRecursion(EntryFunctions, project_trace.func_name))
         => \A o \in ProjectTracedNodes : ~ o.node.is_recursive

\* a function is expanded, with children, under two siblings of one node and
\* marked recursive under neither
C3_Witness ==
    \E o \in TracedNodes : \E i, j \in 1..Len(o.node.children) :
        /\ i < j
        /\ \E p \in Occurrences(o.node.children[i], <<>>),
              q \in Occurrences(o.node.children[j], <<>>) :
              /\ p.node.function_name = q.node.function_name
              /\ ~ p.node.is_external /\ ~ q.node.is_external
              /\ ~ p.node.is_recursive /\ ~ q.node.is_recursive
              /\ p.node.children # <<>> /\ q.node.children # <<>>

\* Scenario A: foo() { bar(); }  bar() { baz(); }  with baz not defined
ScenarioA == MakeFile(<< << <<"b">> >>, << <<"c">> >> >>)

\* C4: every is_external node of a tree traced by either tracer has no
\* children, and for Scenario A (traced deep enough to reach baz; in a
\* project, bar being defined in the entry file only) the tree from foo is
\* foo -> bar -> baz with baz an external leaf.
C4_ExternalLeaf ==
    /\ \A o \in TracedNodes \cup ProjectTracedNodes :
          o.node.is_external => o.node.children = <<>>
    /\ (cur_file = ScenarioA /\ last_trace.called /\ last_trace.func_name = "a"
          /\ last_trace.max_depth >= 3)
         => /\ last_trace.result # None
            /\ Shape(last_trace.result[1])
                 = Inner("a", << Inner("b", << Leaf("c", TRUE, FALSE) >>) >>)
    /\ (project_trace.called /\ project[EntryPath] = ScenarioA
          /\ Len(find_symbol(symbol_table, "b")) = 1
          /\ project_trace.func_name = "a" /\ project_trace.max_depth >= 2)
         => /\ project_trace.result # None
            /\ Shape(project_trace.result[1])
                 = Inner("a", << Inner("b", << Leaf("c", TRUE, FALSE) >>) >>)

\* Scenario A was traced from foo and the external baz is in the tree
C4_Witness ==
    /\ cur_file = ScenarioA /\ last_trace.called /\ last_trace.func_name = "a"
    /\ \E o \in TracedNodes : o.node.is_external /\ Len(o.anc) = 2

\* the children of a node, as (callee name, call-site line) pairs
ChildSites(node) ==
    [ i \in 1..Len(node.children) |->
        << node.children[i].function_name, node.children[i].called_from_line >> ]

SiteList(call_exprs) ==
    [ i \in 1..Len(call_exprs) |-> << CalledName(call_exprs[i].text), call_exprs[i].line >> ]

\* the nodes whose function body the tracer entered
ExpandedNodes == { o \in TracedNodes : ~ o.node.is_external /\ ~ o.node.is_recursive }

\* C6 as stated: every expanded node has exactly one child per call
\* expression of its function's body, in source order, each with the line of
\* its own call site.
C6_AsStated ==
    \A o \in ExpandedNodes :
        ChildSites(o.node) = SiteList(file_functions[o.node.function_name].node.calls)

\* C6, amended: every expanded node above the depth cut has exactly one child
\* per call expression whose callee is not on the standard-library denylist,
\* in source order and never deduplicated, each with the line of its own call
\* site; an expanded node on the last level the bound allows has none.
C6_ChildrenInSourceOrder ==
    \A o \in ExpandedNodes :
        ChildSites(o.node) =
            IF Len(o.anc) + 1 < last_trace.max_depth
            THEN SiteList(TracedSites(file_functions, o.node.function_name))
            ELSE <<>>

\* an expanded node has two children for two calls of one callee, on
\* different lines
C6_Witness ==
    \E o \in ExpandedNodes : \E i, j \in 1..Len(o.node.children) :
        /\ i < j
        /\ o.node.children[i].function_name = o.node.children[j].function_name
        /\ o.node.children[i].called_from_line < o.node.children[j].called_from_line

\* C7 as stated: trace_call_chain returns None exactly when the name is not
\* in the function map.
C7_AsStated ==
    last_trace.called =>
        (last_trace.result = None <=> last_trace.func_name \notin DOMAIN file_functions)

\* C7, amended: trace_call_chain returns None exactly when the name is not in
\* the function map or max_depth is 0 or less; otherwise it returns a root
\* node carrying that name.
C7_NullIffUndefinedOrNoDepth ==
    last_trace.called =>
        /\ last_trace.result = None
             <=> (last_trace.func_name \notin DOMAIN file_functions \/ last_trace.max_depth <= 0)
        /\ last_trace.result # None
             => last_trace.result[1].function_name = last_trace.func_name

\* a defined name was traced with max_depth = 0 and None came back
C7_Witness ==
    /\ last_trace.called
    /\ last_trace.func_name \in DOMAIN file_functions
    /\ last_trace.max_depth = 0
    /\ last_trace.result = None

\* a bound no path of the map can reach: names on a path are different
\* but for the last
Unlimited(ff) == Cardinality(DOMAIN ff) + 2

\* the tree without the nodes at depth `cut` and deeper (root at depth 0)
RECURSIVE CutAt(_, _, _)
CutAt(node, depth, cut) ==
    [ node EXCEPT !.children =
        IF depth + 1 >= cut THEN <<>>
        ELSE [ i \in 1..Len(node.children) |-> CutAt(node.children[i], depth + 1, cut) ] ]

CutTree(tree, cut) == IF tree = None \/ cut <= 0 THEN None ELSE << CutAt(tree[1], 0, cut) >>

UnlimitedTree == trace_call_chain(file_functions, last_trace.func_name, Unlimited(file_functions))

\* the tree trace_from_entry_point gives for the last traced entry point
\* with the tracer's own, effectively unlimited, max_depth
UnlimitedProjectTree ==
    trace_from_entry_point(symbol_table, project, project_trace.func_name,
                           EntryPath, TracerMaxDepth)

\* the tree without the nodes deeper than `cut`, the nodes at depth `cut`
\* themselves not marked is_recursive
RECURSIVE CutUnmarked(_, _, _)
CutUnmarked(node, depth, cut) ==
    IF depth >= cut
    THEN [ node EXCEPT !.children = <<>>, !.is_recursive = FALSE ]
    ELSE [ node EXCEPT !.children =
             [ i \in 1..Len(node.children) |-> CutUnmarked(node.children[i], depth + 1, cut) ] ]

NoFrame == <<>>

\* the top of _trace_function_calls_recursive, up to visited.add: either
\* the call returns at once (None, an external node, a recursive node) or it
\* goes on into the loop over the call expressions of the body
Invoke(ff, func_name, visited, depth, max_depth) ==
    IF DepthReached(depth, max_depth)
    THEN [ returns |-> TRUE, value |-> None, frame |-> NoFrame ]
    ELSE IF NotInFile(ff, func_name)
    THEN [ returns |-> TRUE, value |-> << ExternalNode(func_name) >>, frame |-> NoFrame ]
    ELSE IF StopsAtRevisit(func_name, visited)
    THEN [ returns |-> TRUE, value |-> << CurrentNode(ff[func_name], func_name, visited) >>,
           frame |-> NoFrame ]
    ELSE [ returns |-> FALSE, value |-> None,
           frame |-> [ func_name |-> func_name,
                       visited   |-> visited \cup {func_name},
                       depth     |-> depth,
                       i         |-> 1,
                       node      |-> CurrentNode(ff[func_name], func_name, visited) ] ]

\* if child_node: set its call-site line and append it
AppendChild(frame, value, call_expr) ==
    IF value = None THEN frame
    ELSE [ frame EXCEPT !.node.children = Append(@, WithCallSite(value[1], call_expr)) ]

FrameCalls(frame) == file_functions[frame.func_name].node.calls

Finished(func_name, max_depth, result) ==
    /\ run' = [ status |-> "done", func_name |-> func_name, max_depth |-> max_depth ]
    /\ last_trace' = [ called |-> TRUE, func_name |-> func_name,
                       max_depth |-> max_depth, result |-> result ]

\* trace_call_chain is called: the lookup of the entry name and the first
\* activation
StartTrace ==
    /\ ~ full_index
    /\ run.status = "idle"
    /\ \E func_name \in TraceNames, max_depth \in Depths :
          IF func_name \notin DOMAIN file_functions
          THEN Finished(func_name, max_depth, None) /\ stack' = <<>>
          ELSE LET r == Invoke(file_functions, func_name, FreshVisited, 0, max_depth)
               IN  IF r.returns
                   THEN Finished(func_name, max_depth, r.value) /\ stack' = <<>>
                   ELSE /\ run' = [ status |-> "running", func_name |-> func_name,
                                    max_depth |-> max_depth ]
                        /\ stack' = << r.frame >>
                        /\ UNCHANGED last_trace
    /\ UNCHANGED <<analyzer, analyses, traced, aggregation, full_mode, tools, data_structures>>

\* one pass of the loop body in the top activation: the next call
\* expression is skipped, answered at once, or entered
StepCall ==
    /\ run.status = "running"
    /\ LET top  == stack[Len(stack)]
           rest == SubSeq(stack, 1, Len(stack) - 1)
       IN  /\ top.i <= Len(FrameCalls(top))
           /\ LET call_expr   == FrameCalls(top)[top.i]
                  called_name == CalledName(call_expr.text)
                  r == Invoke(file_functions, called_name, top.visited,
                              top.depth + 1, run.max_depth)
              IN  IF _is_standard_library_function(called_name)
                  THEN stack' = Append(rest, [ top EXCEPT !.i = @ + 1 ])
                  ELSE IF r.returns
                  THEN stack' = Append(rest, [ AppendChild(top, r.value, call_expr)
                                                 EXCEPT !.i = @ + 1 ])
                  ELSE stack' = Append(stack, r.frame)
    /\ UNCHANGED <<analyzer, analyses, observed, run, aggregation, full_mode, tools, data_structures>>

\* the loop of the top activation is over: return current_node to the
\* caller, which appends it, or to trace_call_chain's caller
StepReturn ==
    /\ run.status = "running"
    /\ LET top  == stack[Len(stack)]
           rest == SubSeq(stack, 1, Len(stack) - 1)
       IN  /\ top.i > Len(FrameCalls(top))
           /\ IF rest = <<>>
              THEN /\ Finished(run.func_name, run.max_depth, << top.node >>)
                   /\ stack' = <<>>
              ELSE LET caller == rest[Len(rest)]
                       before == SubSeq(rest, 1, Len(rest) - 1)
                   IN  /\ stack' = Append(before,
                                     [ AppendChild(caller, << top.node >>,
                                                   FrameCalls(caller)[caller.i])
                                         EXCEPT !.i = @ + 1 ])
                       /\ UNCHANGED <<last_trace, run>>
    /\ UNCHANGED <<analyzer, analyses, traced, aggregation, full_mode, tools, data_structures>>

NextSteps == AnalyzeFile \/ StartTrace \/ StepCall \/ StepReturn

\* the interpreter runs a started call on: no step of it waits for anything
SpecSteps == Init /\ [][NextSteps]_vars /\ WF_vars(StepCall) /\ WF_vars(StepReturn)

\* Scenario B: a() { b(); }  b() { a(); }
ScenarioB == MakeFile(<< << <<"b">> >>, << <<"a">> >> >>)

\* the stepwise run ends with the tree the recursive definition gives
StepsAgreeWithTraceRec ==
    run.status = "done" =>
        last_trace.result = trace_call_chain(file_functions, run.func_name, run.max_depth)

\* C2: every started trace_call_chain call returns, for every generated call
\* graph (self-recursive and mutually recursive ones among them) and every
\* max_depth; and for Scenario B, traced from a deep enough to hold the
\* cycle, the returned tree is exactly a -> b -> a, the last node marked
\* is_recursive and without children.
C2_TerminatesAndCutsCycle ==
    /\ (run.status = "running") ~> (run.status = "done")
    /\ [] ( (run.status = "done" /\ cur_file = ScenarioB /\ run.func_name = "a"
               /\ run.max_depth >= 3)
            => /\ last_trace.result # None
               /\ Shape(last_trace.result[1])
                    = Inner("a", << Inner("b", << Leaf("a", FALSE, TRUE) >>) >>) )

\* the trace of Scenario B from a has returned, with its recursive leaf
C2_Witness ==
    /\ run.status = "done" /\ cur_file = ScenarioB /\ run.func_name = "a"
    /\ run.max_depth = DefaultMaxDepth
    /\ \E o \in TracedNodes : o.node.is_recursive /\ o.anc = <<"a", "b">>

(***************************************************************************)
(* Tracing again, and analyzing several files with one analyzer.           *)
(***************************************************************************)
\* trace_call_chain(func_name, source_code) with the default max_depth; the
\* first tree returned for a name since the analysis is kept for comparison
Retrace ==
    \E func_name \in TraceNames :
        LET result == trace_call_chain(file_functions, func_name, DefaultMaxDepth)
        IN  /\ ~ full_index
            /\ last_trace' = [ called    |-> TRUE,
                               func_name |-> func_name,
                               max_depth |-> DefaultMaxDepth,
                               result    |-> result ]
            /\ traced' = [ first |-> IF traced.first[func_name] = <<>>
                                      THEN [ traced.first EXCEPT ![func_name] = << result >> ]
                                      ELSE traced.first,
                           again |-> traced.first[func_name] # <<>> ]
            /\ UNCHANGED <<analyzer, analyses, stepping, aggregation, full_mode, tools, data_structures>>

NextRetrace == AnalyzeFile \/ Retrace

SpecRetrace == Init /\ [][NextRetrace]_vars

\* files given to an analyzer that is used for several files
SessionFiles == FilesWithin(MaxSessionSites) \ {NoFile}

\* CppProjectAnalyzer keeps one SingleFileAnalyzer and calls its
\* analyze_file for every file it is asked to analyze
AnalyzeInSession ==
    /\ analyses < MaxAnalyses
    /\ \E file \in SessionFiles : DoAnalyze(file)
    /\ UNCHANGED aggregation

NextSession == AnalyzeInSession \/ Retrace

SpecSession == Init /\ [][NextSession]_vars

\* C5: in every traced tree a non-root node is is_external exactly when its
\* name has no definition in the file being analyzed (the file of the
\* latest analyze_file call), whatever the analyzer analyzed before.
C5_ExternalIffNotDefinedInFile ==
    \A o \in TracedNodes :
        Len(o.anc) >= 1 =>
            (o.node.is_external <=> o.node.function_name \notin DefinedIn(cur_file))

NoTarget == ""

\* the entry points kept by _analyze_file_boundary_mode: get_entry_points
\* gives one per key of file_functions, filtered by target_function
EntryPoints(ff, target_function) ==
    IF target_function = NoTarget THEN DOMAIN ff
    ELSE { n \in DOMAIN ff : n = target_function }

\* the loop over the entry points: call_chains[ep.name] = call_tree for
\* every entry point whose trace returned a tree
BuildCallChains(ff, target_function, trace_depth) ==
    LET traced_eps == { n \in EntryPoints(ff, target_function) :
                          trace_call_chain(ff, n, trace_depth) # None }
    IN  [ n \in traced_eps |-> trace_call_chain(ff, n, trace_depth)[1] ]

\* faulty variant: the root function is not skipped
IsExcluded_Never(child, exclude_func) == FALSE

\* if child.function_name == exclude_func: continue
IsExcluded(child, exclude_func) == child.function_name = exclude_func

\* if child.function_name in visited: continue
AlreadyVisited(child, visited) == child.function_name \in visited

\* faulty variant: the recursive call was handed a copy of visited
VisitedAfterDescent_Copy(own, passed) == own

\* the caller's visited set after a recursive call that was handed the set
\* itself: `own` is the set as the caller left it, `passed` as the callee did
VisitedAfterDescent(own, passed) == passed

\* _collect_all_dependencies(node, internal_set, external_set, exclude_func,
\* visited): `acc` holds the two sets and visited, which the calls share and
\* change in place, and the names whose tree was descended into, in order
RECURSIVE CollectAll(_, _, _, _)
RECURSIVE CollectChildren(_, _, _, _, _)

CollectAll(cc, node, acc, exclude_func) ==
    IF node = None THEN acc
    ELSE IF node[1].children = <<>> THEN acc
    ELSE CollectChildren(cc, node[1].children, 1, acc, exclude_func)

\* the loop over node.children, from child i on
CollectChildren(cc, children, i, acc, exclude_func) ==
    IF i > Len(children) THEN acc
    ELSE LET child == children[i]
             name  == child.function_name
         IN  IF IsExcluded(child, exclude_func)
             THEN CollectChildren(cc, children, i + 1, acc, exclude_func)
             ELSE IF AlreadyVisited(child, acc.visited)
             THEN CollectChildren(cc, children, i + 1, acc, exclude_func)
             ELSE IF child.is_external
             THEN CollectChildren(cc, children, i + 1,
                                  [ acc EXCEPT !.external = @ \cup {name} ], exclude_func)
             ELSE LET marked == [ acc EXCEPT !.internal = @ \cup {name},
                                             !.visited  = @ \cup {name} ]
                      after  == IF name \in DOMAIN cc
                                THEN LET r == CollectAll(cc, << cc[name] >>,
                                                [ marked EXCEPT !.descents = Append(@, name) ],
                                                exclude_func)
                                     IN  [ r EXCEPT !.visited =
                                               VisitedAfterDescent(marked.visited, r.visited) ]
                                ELSE marked
                  IN  CollectChildren(cc, children, i + 1, after, exclude_func)

\* internal_set = set(), external_set = set(), visited = None
FreshAcc == [ internal |-> {}, external |-> {}, visited |-> {}, descents |-> <<>> ]

\* the call tree of a name in the call-chain map (None when it has none)
ChainOf(cc, func_name) == IF func_name \in DOMAIN cc THEN << cc[func_name] >> ELSE None

\* explicit trace_depth arguments of an aggregated analysis
AggDepths == (0..MaxAggDepth) \cup {DefaultMaxDepth}

AggFiles == FilesWithin(MaxAggSites) \ {NoFile}

\* _analyze_file_boundary_mode(target_file, trace_depth, target_function)
\* on a new CppProjectAnalyzer: analyze_file, then one trace per entry point
AnalyzeBoundaryMode ==
    /\ cur_file = NoFile /\ file_functions = EmptyDict
    /\ \E file \in AggFiles, target_function \in TraceNames \cup {NoTarget},
          trace_depth \in AggDepths :
          /\ DoAnalyze(file)
          /\ call_chains' = BuildCallChains(_index_file_functions(file, file_functions),
                                            target_function, trace_depth)
          /\ deps' = NoDeps
          /\ request' = [ target_function |-> target_function, trace_depth |-> trace_depth ]

\* _collect_all_dependencies(call_chains[F], set(), set(), exclude_func=F)
Aggregate ==
    /\ cur_file # NoFile
    /\ \E root \in TraceNames :
          LET acc == CollectAll(call_chains, ChainOf(call_chains, root), FreshAcc, root)
          IN  deps' = [ called   |-> TRUE,
                        root     |-> root,
                        internal |-> acc.internal,
                        external |-> acc.external,
                        descents |-> acc.descents ]
    /\ UNCHANGED <<analyzer, analyses, observed, stepping, call_chains, request, full_mode, tools, data_structures>>

NextAggregate == AnalyzeBoundaryMode \/ Aggregate

SpecAggregate == Init /\ [][NextAggregate]_vars

\* C10: an aggregation of the dependencies of F, with F as the excluded
\* root, has F neither in its internal set nor in its external set.
C10_RootExcluded ==
    deps.called => deps.root \notin (deps.internal \cup deps.external)

\* F was aggregated, it has an internal dependency, and the tree of that
\* dependency calls back into F
C10_Witness ==
    /\ deps.called
    /\ \E g \in deps.internal :
          /\ g \in DOMAIN call_chains
          /\ \E i \in 1..Len(call_chains[g].children) :
                call_chains[g].children[i].function_name = deps.root

\* the external names the functions of S call: callees off the denylist
\* that the function map does not hold
ExternalCallees(ff, S) ==
    UNION { { CalledName(c.text) : c \in Range(TracedSites(ff, f)) } : f \in S } \ DOMAIN ff

\* C11: the aggregation for F, on the call-chain map of an analysis traced
\* with the default depth (of all entry points or of one target function),
\* returns as internal set the functions of the file reachable from F by
\* calls between functions of the file, F excluded, and as external set the
\* external names called by F or by one of those functions.
C11_CompleteAggregation ==
    (deps.called /\ deps.root \in DOMAIN call_chains
        /\ request.trace_depth = DefaultMaxDepth)
      => LET reached == ReachedFrom(file_functions, deps.root) \ {deps.root}
         IN  /\ deps.internal = reached
             /\ deps.external = ExternalCallees(file_functions, reached \cup {deps.root})


(***************************************************************************)
(* Classification of external names: one classifier, built from any of a   *)
(* few pattern configurations on either platform, classifying any small    *)
(* set of names any number of times.                                       *)
(***************************************************************************)
MaxNames == 2

Name_LOG_ERROR      == <<"L","O","G","_","E","R","R","O","R">>
Name_GET_MSG_LEN    == <<"G","E","T","_","M","S","G","_","L","E","N">>
Name_memcpy         == <<"m","e","m","c","p","y">>
Name_ProcessPayment == <<"P","r","o","c","e","s","s","P","a","y","m","e","n","t">>
Name_printf_log     == <<"p","r","i","n","t","f","_","l","o","g">>
Name_MEMCPY         == <<"M","E","M","C","P","Y">>
Name_SET_log        == <<"S","E","T","_","l","o","g">>

\* the external names a classification may be asked about
NamePool ==
    { Name_LOG_ERROR, Name_GET_MSG_LEN, Name_memcpy, Name_ProcessPayment,
      Name_printf_log, Name_MEMCPY, Name_SET_log }

NameSets == { S \in SUBSET NamePool : Cardinality(S) <= MaxNames }

\* pattern lists a configuration file may give for each category
PatternLists(category) ==
    { _get_default_config[category], << >>,
      << <<"P","r","o","c","e","s","s","*">>, <<"m","e","m","?","?","?">> >> }

\* ExternalFunctionClassifier(config_path) on either platform
Configs ==
    [ windows  : BOOLEAN,
      patterns : [ standard_library  : PatternLists("standard_library"),
                   logging_utility   : PatternLists("logging_utility"),
                   macro_definitions : PatternLists("macro_definitions"),
                   custom_exclusions : PatternLists("custom_exclusions") ] ]

DefaultConfigs == { cfg \in Configs : cfg.patterns = _get_default_config }

InitClassify ==
    /\ BoundaryInit
    /\ cls_config \in Configs
    /\ cls_result = NoClassification
    /\ ExposureInit
    /\ BranchesInit
    /\ StructuresInit
    /\ MoreToolsInit

\* classifier.classify(external_functions)
Classify ==
    \E functions \in NameSets :
        /\ cls_result' = [ called |-> TRUE, input |-> functions,
                           result |-> classify(functions, cls_config) ]
        /\ UNCHANGED <<analyzer, analyses, observed, stepping, aggregation,
                       full_mode, cls_config, exposure, branches, structures,
                       more_tools, data_structures>>

NextClassify == Classify

SpecClassify == InitClassify /\ [][NextClassify]_vars

\* C12: the four buckets business, standard_library, logging_utility and
\* macros of a classification are pairwise disjoint and their union is the
\* input set, for every input set and every pattern configuration
C12_Partition ==
    cls_result.called =>
        /\ DOMAIN cls_result.result = BucketNames
        /\ UNION { cls_result.result[b] : b \in BucketNames } = cls_result.input
        /\ \A b1, b2 \in BucketNames :
               b1 # b2 => cls_result.result[b1] \cap cls_result.result[b2] = {}

\* a classified pair of names, one of which matches the patterns of more
\* than one category
C12_Witness ==
    /\ cls_result.called
    /\ Cardinality(cls_result.input) = 2
    /\ \E func \in cls_result.input :
           /\ _matches_patterns(func, cls_config.patterns.standard_library, cls_config.windows)
           /\ _matches_patterns(func, cls_config.patterns.logging_utility, cls_config.windows)

\* the rules of the categories, each tested on its own
RuleMacro(func) ==
    \/ is_all_caps(func) /\ (\E i \in 1..Len(func) : func[i] = "_")
    \/ _matches_patterns(func, cls_config.patterns.macro_definitions, cls_config.windows)
RuleCustom(func) ==
    _matches_patterns(func, cls_config.patterns.custom_exclusions, cls_config.windows)
RuleStandard(func) ==
    _matches_patterns(func, cls_config.patterns.standard_library, cls_config.windows)
RuleLogging(func) ==
    _matches_patterns(func, cls_config.patterns.logging_utility, cls_config.windows)

\* the bucket of the first rule that matches, in the fixed order
FirstMatch(func) ==
    CASE RuleMacro(func)    -> "macros"
      [] RuleCustom(func)   -> "logging_utility"
      [] RuleStandard(func) -> "standard_library"
      [] RuleLogging(func)  -> "logging_utility"
      [] OTHER              -> "business"

\* C13: every classified name is in the bucket of the first rule it matches
\* in the order macro heuristic, custom exclusions, standard library,
\* logging, else business, whatever pattern lists are configured
C13_FirstMatchWins ==
    cls_result.called =>
        \A func \in cls_result.input : func \in cls_result.result[FirstMatch(func)]

\* a name that matches the standard-library rule and the logging rule and no
\* earlier one, classified under a configured, non-default pattern list
C13_Witness ==
    /\ cls_result.called
    /\ cls_config.patterns.logging_utility # _get_default_config.logging_utility
    /\ \E func \in cls_result.input :
           /\ ~ RuleMacro(func) /\ ~ RuleCustom(func)
           /\ RuleStandard(func) /\ RuleLogging(func)
           /\ func \in cls_result.result["standard_library"]

\* C14: with the built-in default patterns LOG_ERROR is in logging_utility,
\* GET_MSG_LEN in macros, memcpy in standard_library and ProcessPayment in
\* business
C14_ScenarioC ==
    (cls_result.called /\ cls_config \in DefaultConfigs) =>
        /\ Name_LOG_ERROR \in cls_result.input
               => Name_LOG_ERROR \in cls_result.result["logging_utility"]
        /\ Name_GET_MSG_LEN \in cls_result.input
               => Name_GET_MSG_LEN \in cls_result.result["macros"]
        /\ Name_memcpy \in cls_result.input
               => Name_memcpy \in cls_result.result["standard_library"]
        /\ Name_ProcessPayment \in cls_result.input
               => Name_ProcessPayment \in cls_result.result["business"]


(***************************************************************************)
(* Entry points: one analyzer, one analyzed file whose definitions may be  *)
(* static and may share a name, beside any of a few sibling headers.       *)
(***************************************************************************)
MaxHeaderLines == 2

\* names the analyzed file may define
ExposureNames == << "a", "b" >>

\* files of one or two definitions without calls
ExposureFiles ==
    UNION { { [ i \in 1..n |-> FuncDef(i, names[i], statics[i], << >>) ]
              : names \in SeqsOfLen(Range(ExposureNames), n),
                statics \in SeqsOfLen(BOOLEAN, n) }
            : n \in 1..Len(ExposureNames) }

Line_decl_a        == << "i","n","t"," ","a","(",")",";" >>
Line_decl_b        == << "i","n","t"," ","b","(",")",";" >>
Line_comment_a     == << "/","/"," ","i","n","t"," ","a","(",")",";" >>
Line_block_a       == << " "," ","/","*"," ","i","n","t"," ","a","(",")",";"," ","*","/" >>
Line_decl_ax       == << "i","n","t"," ","a","x","(",")",";" >>
Line_var_a_decl_x  == << "i","n","t"," ","a",";"," ","i","n","t"," ","x","(",")",";" >>

\* lines a sibling header may hold
HeaderLines ==
    { Line_decl_a, Line_decl_b, Line_comment_a, Line_block_a, Line_decl_ax,
      Line_var_a_decl_x }

\* the sibling headers on disk: <base>.h with up to MaxHeaderLines lines or
\* absent, <base>.hpp declaring a or absent
Headers ==
    [ h   : { None } \cup { << lines >> : lines \in UNION { SeqsOfLen(HeaderLines, n)
                                                            : n \in 0..MaxHeaderLines } },
      hpp : { None, << << Line_decl_a >> >> } ]

InitExposure ==
    /\ BoundaryInit
    /\ ClassifierInit
    /\ header \in Headers
    /\ entry_points = NoEntryPoints
    /\ BranchesInit
    /\ StructuresInit
    /\ MoreToolsInit

\* analyze_file(file_path) on a new analyzer
AnalyzeSource ==
    /\ cur_file = NoFile /\ file_functions = EmptyDict
    /\ \E file \in ExposureFiles : DoAnalyze(file)
    /\ UNCHANGED aggregation

\* get_entry_points(source_code, file_path) after analyze_file
GetEntryPoints ==
    /\ cur_file # NoFile
    /\ entry_points' = [ called |-> TRUE,
                         list   |-> get_entry_points(file_functions, cur_file, header) ]
    /\ UNCHANGED <<analyzer, analyses, observed, stepping, aggregation, full_mode,
                   classifier, header, branches, structures, more_tools, data_structures>>

NextExposure == AnalyzeSource \/ GetEntryPoints

SpecExposure == InitExposure /\ [][NextExposure]_vars

\* the entry points reported for a name
EntriesOf(func_name) ==
    { k \in 1..Len(entry_points.list) : entry_points.list[k].name = func_name }

DeclaresOnLine(line, func_name) ==
    /\ ~ IsCommentLine(line)
    /\ \E i \in 1..(Len(line) - 1) :
           /\ line[i] = func_name
           /\ line[i + 1] = "("
           /\ (i = 1 \/ line[i - 1] \in { " ", "*", "&" })

\* the sibling headers that hold such a line for the name
DeclaringHeaders(func_name) ==
    { path \in { "h", "hpp" } :
        /\ header[path] # None
        /\ \E k \in 1..Len(header[path][1]) : DeclaresOnLine(header[path][1][k], func_name) }

\* C16: a non-static function is API, with the header path recorded, exactly
\* when a sibling header has a non-comment line in which its name is
\* followed by '('; otherwise it is EXPORTED
C16_ApiIffDeclared ==
    entry_points.called =>
        \A k \in 1..Len(entry_points.list) :
            LET e == entry_points.list[k]
            IN  ~ file_functions[e.name].is_static
                    => IF DeclaringHeaders(e.name) # {}
                       THEN e.category = "API" /\ e.declaration_location \in DeclaringHeaders(e.name)
                       ELSE e.category = "EXPORTED"


(***************************************************************************)
(* File boundary: one analyzer, one analyzed unit whose definitions may    *)
(* carry a denylisted name or share a name, and any traces.                *)
(***************************************************************************)
\* names the analyzed unit may define
BoundaryNames == << "a", "log" >>

\* bodies of its definitions: no call, a call of b, a member call x.log()
BoundaryBodies == { << >>, << << "b" >> >>, << << "x", "log" >> >> }

\* files of one or two definitions
BoundaryFiles ==
    UNION { { [ i \in 1..n |-> FuncDef(i, names[i], statics[i], bodies[i]) ]
              : names \in SeqsOfLen(Range(BoundaryNames), n),
                statics \in SeqsOfLen(BOOLEAN, n),
                bodies \in SeqsOfLen(BoundaryBodies, n) }
            : n \in 1..Len(BoundaryNames) }

\* the data structures a unit may define, and the other types it may name
BoundaryStructs == { << >>, << StructDef(1, "Foo") >>, << StructDef(1, "list") >> }
BoundaryTypes == { << >>, << "Foo" >>, << "Bar" >>, << "string" >> }

BoundaryUnits ==
    { UnitOf(file, structs, types) :
        file \in BoundaryFiles, structs \in BoundaryStructs, types \in BoundaryTypes }

InitBoundary ==
    /\ BoundaryInit
    /\ ToolsInit

\* analyze_file(file_path) on a new analyzer
AnalyzeUnit ==
    /\ cur_file = NoFile /\ file_functions = EmptyDict
    /\ \E unit \in BoundaryUnits : DoAnalyzeUnit(unit)
    /\ UNCHANGED aggregation

NextBoundary == AnalyzeUnit \/ TraceCallChain

SpecBoundary == InitBoundary /\ [][NextBoundary]_vars

\* C17: no name of the standard-library function denylist is in
\* internal_functions or external_functions of a returned boundary, also
\* when the file defines a function of that name, and no denylisted type
\* name is in either data-structure set
C17_DenylistExcluded ==
    cur_file # NoFile =>
        /\ (internal_functions \cup external_functions) \cap std_functions = {}
        /\ (internal_data_structures \cup external_data_structures) \cap std_types = {}

\* the first definition of a name in source order
FirstDefinition(file, func_name) ==
    file[CHOOSE i \in 1..Len(file) :
            /\ file[i].name = func_name
            /\ \A j \in 1..(i - 1) : file[j].name # func_name]

\* C18: the function map holds, for every name the file defines, the record
\* (node, signature, line, is_static) of the first definition of that name
\* in source order, and a trace of the name expands the body of that
\* definition
C18_FirstDefinitionWins ==
    cur_file # NoFile =>
        \A n \in DefinedIn(cur_file) :
            LET first == FirstDefinition(cur_file, n)
            IN  /\ file_functions[n] = FunctionInfo(first)
                /\ (last_trace.called /\ last_trace.func_name = n /\ last_trace.max_depth >= 2)
                       => ChildSites(last_trace.result[1]) =
                              SiteList(SelectSeq(first.calls,
                                  LAMBDA c : ~ _is_standard_library_function(CalledName(c.text))))

\* C25: a call whose callee name, reduced to the trailing method name, is
\* on the standard-library denylist gives no child node, internal or
\* external: no node of a traced tree other than its root carries a
\* denylisted name, also when the file defines a function of that name
C25_DenylistedCalleeNoNode ==
    \A o \in TracedNodes :
        o.anc # << >> => o.node.function_name \notin std_functions

\* a trace of a function calling x.log() in a file that defines log went
\* into the body and gave the node no child
C25_Witness ==
    /\ last_trace.called
    /\ last_trace.max_depth >= 2
    /\ last_trace.func_name \in DOMAIN file_functions
    /\ "log" \in DOMAIN file_functions
    /\ \E c \in Range(file_functions[last_trace.func_name].node.calls) :
           c.text = << "x", "log" >>
    /\ last_trace.result # None
    /\ last_trace.result[1].children = << >>

(***************************************************************************)
(* Branch analysis: one parsed function, analysed.                         *)
(***************************************************************************)
MaxIfs == 3
MaxCases == 4
MaxInnerCases == 2
MaxLogicalOps == 2

Identifier == SyntaxLeaf("identifier")

\* a condition joining n + 1 operands by n operators, && and || in turn
RECURSIVE Condition(_)
Condition(n) ==
    IF n = 0 THEN Identifier
    ELSE SyntaxNode("binary_expression",
              << Condition(n - 1), SyntaxLeaf(IF n % 2 = 1 THEN "&&" ELSE "||"), Identifier >>)

ReturnStmt == SyntaxNode("return_statement", << SyntaxLeaf("return"), SyntaxLeaf(";") >>)
Block(statements) == SyntaxNode("compound_statement", << SyntaxLeaf("{") >> \o statements \o << SyntaxLeaf("}") >>)

\* if (c) { return; } with an optional else branch
IfStmt(else_branch) ==
    SyntaxNode("if_statement",
         << SyntaxLeaf("if"), SyntaxNode("condition_clause", << Identifier >>), Block(<< ReturnStmt >>) >>
         \o else_branch)

\* n if statements as an else-if chain
RECURSIVE IfChain(_)
IfChain(n) ==
    IF n = 1 THEN IfStmt(<< >>)
    ELSE IfStmt(<< SyntaxNode("else_clause", << SyntaxLeaf("else"), IfChain(n - 1) >>) >>)

\* n if statements, one after the other or as one else-if chain
IfStatements(n, chained) ==
    IF n = 0 THEN << >>
    ELSE IF chained THEN << IfChain(n) >>
    ELSE [ i \in 1..n |-> IfStmt(<< >>) ]

\* case k: followed by the given statements and break
CaseStmt(statements) ==
    SyntaxNode("case_statement",
         << SyntaxLeaf("case"), SyntaxLeaf("number_literal"), SyntaxLeaf(":") >> \o statements
         \o << SyntaxNode("break_statement", << SyntaxLeaf("break"), SyntaxLeaf(";") >>) >>)

\* a switch of n case labels and no default, the first case holding the
\* given statements
SwitchStmt(n, first_case) ==
    SyntaxNode("switch_statement",
         << SyntaxLeaf("switch"), SyntaxNode("condition_clause", << Identifier >>),
            Block([ i \in 1..n |-> CaseStmt(IF i = 1 THEN first_case ELSE << >>) ]) >>)

\* the switch statements of a body: none, one, or one with a second one
\* nested in its first case
SwitchStatements(cases, inner_cases) ==
    IF cases = 0 THEN << >>
    ELSE << SwitchStmt(cases, IF inner_cases = 0 THEN << >>
                              ELSE << SwitchStmt(inner_cases, << >>) >>) >>

\* the loop of a body, around the given statements
Loops == { "none", "for_statement", "while_statement", "do_statement" }

InLoop(loop, statements) ==
    IF loop = "none" THEN statements
    ELSE << SyntaxNode(loop, << SyntaxLeaf("loop"), Block(statements) >>) >>

\* x = <condition of n operators>;  and  y = c ? a : b;
ExpressionStatements(logical_ops, ternaries) ==
    (IF logical_ops = 0 THEN << >>
     ELSE << SyntaxNode("expression_statement", << Condition(logical_ops), SyntaxLeaf(";") >>) >>)
    \o [ i \in 1..ternaries |->
           SyntaxNode("expression_statement",
                << SyntaxNode("conditional_expression",
                        << Identifier, SyntaxLeaf("?"), Identifier, SyntaxLeaf(":"), Identifier >>),
                   SyntaxLeaf(";") >>) ]

Declarator ==
    SyntaxNode("function_declarator", << Identifier, SyntaxNode("parameter_list", << >>) >>)

\* the function_definition node of a function of the given shape
FunctionOf(shape) ==
    SyntaxNode("function_definition",
         << SyntaxLeaf("primitive_type"), Declarator >>
         \o (IF ~ shape.has_body THEN << SyntaxLeaf("default_method_clause") >>
             ELSE << Block(IfStatements(shape.ifs, shape.chained)
                           \o InLoop(shape.loop,
                                     SwitchStatements(shape.cases, shape.inner_cases))
                           \o ExpressionStatements(shape.logical_ops, shape.ternaries)) >>))

Shapes ==
    { sh \in [ has_body    : BOOLEAN,
               ifs         : 0..MaxIfs,
               chained     : BOOLEAN,
               loop        : Loops,
               cases       : 0..MaxCases,
               inner_cases : 0..MaxInnerCases,
               logical_ops : 0..MaxLogicalOps,
               ternaries   : 0..1 ] :
        /\ (sh.chained => sh.ifs >= 2)
        /\ (sh.inner_cases > 0 => sh.cases > 0)
        /\ (~ sh.has_body =>
               /\ sh.ifs = 0 /\ sh.cases = 0 /\ sh.loop = "none"
               /\ sh.logical_ops = 0 /\ sh.ternaries = 0) }

InitBranches ==
    /\ BoundaryInit
    /\ ClassifierInit
    /\ ExposureInit
    /\ StructuresInit
    /\ \E shape \in Shapes : br_func = [ shape |-> << shape >>, node |-> FunctionOf(shape) ]
    /\ br_result = NoAnalysis
    /\ MoreToolsInit

\* analyzer.analyze_function(func_node, source_code)
AnalyzeFunction ==
    /\ br_result' = [ called |-> TRUE, analysis |-> analyze_function(br_func.node) ]
    /\ UNCHANGED <<analyzer, analyses, observed, stepping, aggregation, full_mode,
                   classifier, exposure, br_func, structures, more_tools, data_structures>>

NextBranches == AnalyzeFunction

SpecBranches == InitBranches /\ [][NextBranches]_vars

\* the decision points written in a function of the given shape
DecisionPoints(shape) ==
    shape.ifs + (IF shape.loop = "none" THEN 0 ELSE 1) + shape.cases + shape.inner_cases
    + shape.logical_ops + shape.ternaries

\* C19: cyclomatic_complexity is 1 plus the number of if statements, loops,
\* case labels, && / || operators and ternaries of the body, each counted
\* once wherever it is nested, also for a switch inside a switch; a function
\* without a body gives 1
C19_CyclomaticComplexity ==
    br_result.called =>
        LET shape == br_func.shape[1]
        IN  br_result.analysis.cyclomatic_complexity =
                IF shape.has_body THEN 1 + DecisionPoints(shape) ELSE 1


(***************************************************************************)
(* Structure search: one header holding typedef struct { ... } Foo; below  *)
(* a few other lines, and the extraction for the match on its last line.   *)
(***************************************************************************)
MaxPrefixLines == 2
MaxBodyItems == 2

Line_other         == << "i","n","t"," ","g",";" >>
Line_typedef_open  == << "t","y","p","e","d","e","f"," ","s","t","r","u","c","t"," ","{" >>
Line_typedef       == << "t","y","p","e","d","e","f"," ","s","t","r","u","c","t" >>
Line_open          == << "{" >>
Line_field         == << " "," ","i","n","t"," ","x",";"," " >>
Line_nested        == << " "," ","s","t","r","u","c","t"," ","{"," ","i","n","t"," ","y",";"," ","}"," ","i","n",";" >>
Line_nested_open   == << " "," ","s","t","r","u","c","t"," ","{" >>
Line_nested_close  == << " "," ","}"," ","i","n",";" >>
Line_close_Foo     == << "}"," ","F","o","o",";" >>

\* the opening of the definition: keyword and brace on one line or on two
Openings == { << Line_typedef_open >>, << Line_typedef, Line_open >> }

\* the members of the definition: a field, a nested struct on one line, a
\* nested struct on three lines
BodyItems ==
    { << Line_field >>, << Line_nested >>,
      << Line_nested_open, Line_field, Line_nested_close >> }

Bodies ==
    UNION { { Flatten(items) : items \in SeqsOfLen(BodyItems, n) } : n \in 1..MaxBodyItems }

\* headers: `prefix` other lines, then the definition, ending the file
HeaderFiles ==
    { [ prefix |-> n,
        lines  |-> [ i \in 1..n |-> Line_other ] \o opening \o members \o << Line_close_Foo >> ]
      : n \in 0..MaxPrefixLines, opening \in Openings, members \in Bodies }

InitStructures ==
    /\ BoundaryInit
    /\ ClassifierInit
    /\ ExposureInit
    /\ BranchesInit
    /\ ss_file \in HeaderFiles
    /\ ss_result = NoExtraction
    /\ MoreToolsInit

\* _extract_definition_from_file for the match of '} Foo;' on the last line
ExtractDefinition ==
    LET line_num == Len(ss_file.lines)
    IN  /\ ss_result' = [ called   |-> TRUE,
                          line_num |-> line_num,
                          result   |-> _extract_definition_from_file(
                                           ss_file.lines, line_num, ss_file.lines[line_num]) ]
        /\ UNCHANGED <<analyzer, analyses, observed, stepping, aggregation, full_mode,
                       classifier, exposure, branches, ss_file, more_tools, data_structures>>

NextStructures == ExtractDefinition

SpecStructures == InitStructures /\ [][NextStructures]_vars

\* C20: for typedef struct { ... } Foo; found through its closing line, the
\* search returns every line from the line of the opening keyword through
\* the closing line, wherever the definition sits in the header, also on
\* its first line, and with nested braces
C20_FullSpan ==
    ss_result.called =>
        /\ ss_result.result.found
        /\ ss_result.result.from_line = ss_file.prefix + 1
        /\ ss_result.result.lines =
               [ k \in 1..(Len(ss_file.lines) - ss_file.prefix) |->
                   RStrip(ss_file.lines[ss_file.prefix + k]) ]


(***************************************************************************)
(* Macro reading: one header holding a #define continued over some lines,  *)
(* read by either extractor.                                               *)
(***************************************************************************)
MaxContinued == 21

Line_define_cont == << "#","d","e","f","i","n","e"," ","M","(","x",")"," ","\\" >>
Line_cont        == << " "," ","x"," ","+"," ","\\" >>
Line_cont_blank  == << " "," ","x"," ","+"," ","\\"," " >>
Line_macro_last  == << " "," ","1" >>
Line_define_one  == << "#","d","e","f","i","n","e"," ","M"," ","1" >>

\* the #define line and the lines that continue it: `continued` lines that
\* end in a backslash, then, unless the file ends there, the closing line
MacroLines(continued, closed) ==
    [ i \in 1..continued |->
        IF i = 1 THEN Line_define_cont
        ELSE IF i % 2 = 0 THEN Line_cont ELSE Line_cont_blank ]
    \o (IF ~ closed THEN << >>
        ELSE IF continued = 0 THEN << Line_define_one >> ELSE << Line_macro_last >>)

\* files: other lines before, the macro, other lines after a closed macro;
\* a macro that is not closed continues to the end of the file
MacroFiles ==
    { [ continued |-> shape[1],
        closed    |-> shape[2],
        start     |-> shape[3] + 1,
        lines     |-> [ i \in 1..shape[3] |-> Line_other ]
                      \o MacroLines(shape[1], shape[2])
                      \o [ i \in 1..shape[4] |-> Line_other ] ]
      : shape \in { sh \in (0..MaxContinued) \X BOOLEAN \X (0..1) \X (0..1) :
                      /\ sh[2] \/ sh[1] > 0
                      /\ ~ sh[2] => sh[4] = 0 } }

InitMacroReading ==
    /\ BoundaryInit
    /\ ClassifierInit
    /\ ExposureInit
    /\ BranchesInit
    /\ StructuresInit
    /\ mx_file \in MacroFiles
    /\ mx_result = NoMacroRead
    /\ CallersInit
    /\ LaterToolsInit

\* ConstantExtractor._read_multiline_macro(file_path, start_line)
ReadConstantMacro ==
    /\ mx_result' = [ called     |-> TRUE,
                      by         |-> "constant_extractor",
                      start_line |-> mx_file.start,
                      lines      |-> constant_read_multiline_macro(mx_file.lines,
                                                                   mx_file.start) ]
    /\ UNCHANGED <<analyzer, analyses, observed, stepping, aggregation, full_mode,
                   classifier, exposure, branches, structures, mx_file, callers,
                   later_tools, data_structures>>

\* MacroExtractor._read_multiline_macro(file_path, start_line)
ReadMacro ==
    /\ mx_result' = [ called     |-> TRUE,
                      by         |-> "macro_extractor",
                      start_line |-> mx_file.start,
                      lines      |-> macro_read_multiline_macro(mx_file.lines,
                                                                mx_file.start) ]
    /\ UNCHANGED <<analyzer, analyses, observed, stepping, aggregation, full_mode,
                   classifier, exposure, branches, structures, mx_file, callers,
                   later_tools, data_structures>>

NextMacroReading == ReadConstantMacro \/ ReadMacro

SpecMacroReading == InitMacroReading /\ [][NextMacroReading]_vars

\* the number of lines of the macro: through the first line that does not
\* end in a backslash, or to the end of the file, and no more than the
\* maximum
MacroSpan(file) ==
    LET whole == file.continued + (IF file.closed THEN 1 ELSE 0)
    IN  IF whole > MaxMacroLines THEN MaxMacroLines ELSE whole

\* C21: a multi-line macro is read as its #define line and the continuation
\* lines through the first line that does not end in a backslash, and as no
\* more than 20 lines, by the constant extractor and by the macro extractor,
\* also when every remaining line of the file ends in a backslash
C21_BoundedMacroRead ==
    mx_result.called =>
        /\ Len(mx_result.lines) = MacroSpan(mx_file)
        /\ Len(mx_result.lines) <= MaxMacroLines
        /\ \A k \in 1..Len(mx_result.lines) :
               WithoutContinuation(mx_result.lines[k])
                   = WithoutContinuation(mx_file.lines[mx_file.start + k - 1])

(***************************************************************************)
(* One analyzer and its caller: analyze_file calls on files that parse or  *)
(* do not, traces between them, and the first returned boundary kept.      *)
(***************************************************************************)
\* files of one definition, a or b, that calls nothing, a or b
CallerFiles ==
    { << FuncDef(1, name, FALSE, body) >> :
        name \in { "a", "b" }, body \in { << >>, << << "a" >> >>, << << "b" >> >> } }

\* with no data structure, a definition of struct Foo, or a use of type Foo
CallerUnits ==
    { UnitOf(file, part[1], part[2]) :
        file \in CallerFiles,
        part \in { << << >>, << >> >>,
                   << << StructDef(1, "Foo") >>, << >> >>,
                   << << >>, << "Foo" >> >> } }

InitCaller ==
    /\ BoundaryInit
    /\ ToolsInit

\* the analyzer's collections as a boundary built from them holds them
Boundary ==
    FileBoundary(internal_functions, external_functions,
                 internal_data_structures, external_data_structures,
                 file_data_structures, file_functions)

\* the kept boundary after a call that left the analyzer's collections as
\* `own`
HeldFields(own) ==
    IF held.kept
    THEN [ held EXCEPT !.now = [ f \in DOMAIN held.now |-> HeldAfter(held.now[f], own[f]) ] ]
    ELSE held

\* boundary = analyze_file(file_path) on a file that parses; the caller
\* keeps the boundary of the first call
AnalyzeKept ==
    /\ analyses < MaxAnalyses
    /\ \E unit \in CallerUnits : AnalyzeSteps(unit)
    /\ outcome' = [ status |-> "returned", error |-> "", boundary |-> Boundary',
                    file |-> "parses" ]
    /\ held' = IF held.kept THEN HeldFields(Boundary')
               ELSE [ kept |-> TRUE, at_return |-> Boundary', now |-> Boundary' ]
    /\ UNCHANGED <<aggregation, full_mode, classifier, exposure, branches, structures,
                   macro_reading, later_tools>>

\* analyze_file(file_path) on a file that is missing, unreadable or without
\* a tree: the call raises before step 1
AnalyzeFailing ==
    /\ analyses < MaxAnalyses
    /\ \E condition \in Conditions \ { "parses" } :
          outcome' = [ status   |-> "raised",
                       error    |-> analyze_file_raises(condition),
                       boundary |-> EmptyBoundary,
                       file     |-> condition ]
    /\ analyses' = analyses + 1
    /\ held' = HeldFields(Boundary)
    /\ UNCHANGED <<analyzer, observed, stepping, aggregation, full_mode, classifier,
                   exposure, branches, structures, macro_reading, later_tools,
                   data_structures>>

\* trace_call_chain(func_name, source_code) after an analysis
TraceKept ==
    /\ cur_file # NoFile
    /\ \E func_name \in { "a", "b" } :
          last_trace' = [ called    |-> TRUE,
                          func_name |-> func_name,
                          max_depth |-> DefaultMaxDepth,
                          result    |-> trace_call_chain(file_functions, func_name,
                                                         DefaultMaxDepth) ]
    /\ held' = HeldFields(Boundary)
    /\ UNCHANGED <<analyzer, analyses, traced, stepping, aggregation, full_mode, classifier,
                   exposure, branches, structures, macro_reading, outcome, later_tools,
                   data_structures>>

NextCaller == AnalyzeKept \/ AnalyzeFailing \/ TraceKept

SpecCaller == InitCaller /\ [][NextCaller]_vars

\* C22: an analyze_file call on a file that cannot be decoded, or for which
\* the parser gives no tree, does not raise: the caller gets an empty index,
\* and the analyzer's symbol maps are as they were before the call
C22_EmptyIndexNoRaise ==
    [][(analyses' = analyses + 1 /\ outcome'.file \in { "unreadable", "no_tree" }) =>
           /\ outcome'.error = ""
           /\ outcome'.status = "returned"
           /\ outcome'.boundary = EmptyBoundary
           /\ UNCHANGED <<file_functions, file_data_structures>>]_vars

C28_DisjointSets ==
    outcome.status = "returned" =>
        /\ outcome.boundary.internal_functions \cap outcome.boundary.external_functions = {}
        /\ outcome.boundary.internal_data_structures
               \cap outcome.boundary.external_data_structures = {}

(***************************************************************************)
(* One run of analyze.py with a mode argument and a configuration file.    *)
(***************************************************************************)
\* every spelling of a word in upper and lower case
CaseVariants(word) ==
    { [ i \in 1..Len(word) |-> IF i \in ups THEN UpperChars[CHOOSE k \in 1..26 :
                                                     LowerChars[k] = word[i]]
                                             ELSE word[i] ]
      : ups \in SUBSET (1..Len(word)) }

\* mode arguments: spellings of known mode names and of other words
ModeStrings ==
    CaseVariants(<< "f", "u", "l", "l" >>)
    \cup CaseVariants(<< "d", "e", "e", "p" >>)
    \cup CaseVariants(<< "f", "a", "s", "t" >>)
    \cup CaseVariants(<< "f", "u", "l" >>)
    \cup { << >>, << "f", "u", "l", "l", " " >>, << "1", "0", "x" >> }

InitStartup ==
    /\ BoundaryInit
    /\ ClassifierInit
    /\ ExposureInit
    /\ BranchesInit
    /\ StructuresInit
    /\ MacroReadingInit
    /\ CallersInit
    /\ command \in [ mode_str : ModeStrings, config_file : ConfigFiles ]
    /\ process = NotRun
    /\ LookupsInit
    /\ batch = NoBatch
    /\ report = NoReport

\* main(): the mode is parsed, and unless that exits, the analyzer is
\* created, which loads the classification configuration, and the target
\* file is analyzed
RunMain ==
    /\ process.status = "not_run"
    /\ LET parsed == get_mode_from_string(command.mode_str)
           loaded == _load_config(command.config_file)
       IN  process' =
               IF parsed.raised
               THEN [ status |-> "exited", exit_code |-> 1,
                      error |-> << parsed.unknown, parsed.available >>, mode |-> "",
                      config |-> "", warning |-> FALSE, analyzed |-> FALSE ]
               ELSE [ status |-> "finished", exit_code |-> 0, error |-> << >>,
                      mode |-> parsed.mode, config |-> loaded.config,
                      warning |-> loaded.warning, analyzed |-> TRUE ]
    /\ UNCHANGED <<analyzer, analyses, observed, stepping, aggregation, full_mode,
                   classifier, exposure, branches, structures, macro_reading, callers,
                   command, lookups, batch, report, data_structures>>

NextStartup == RunMain

SpecStartup == InitStartup /\ [][NextStartup]_vars

\* a mode name known when compared without regard to case
SameLetter(x, y) == x = y \/ \E k \in 1..Len(UpperChars) : {x, y} = {UpperChars[k], LowerChars[k]}
KnownMode(mode_str) ==
    \E k \in 1..Len(ModeKeys) :
        /\ Len(ModeKeys[k]) = Len(mode_str)
        /\ \A i \in 1..Len(mode_str) : SameLetter(ModeKeys[k][i], mode_str[i])

\* C23: a run with a mode string that is no known mode name, compared
\* without regard to case, ends with an error that lists the available
\* modes; a run whose classification configuration cannot be loaded ends
\* with an error as well; in both cases no file is analyzed
C23_MalformedConfigurationFatal ==
    process.status # "not_run" =>
        /\ ~ KnownMode(command.mode_str) =>
               /\ process.status = "exited"
               /\ process.error = << command.mode_str, ModeKeys >>
               /\ ~ process.analyzed
        /\ command.config_file \in { "not_object", "not_json" } =>
               /\ process.status = "exited"
               /\ ~ process.analyzed

(***************************************************************************)
(* Definition lookups: the runs of the search tool a lookup may start, and *)
(* the lookups of the four searchers and extractors.                       *)
(***************************************************************************)
\* runs of the search tool: a timeout, an error exit, nothing found, no
\* line that parses, a match without and with a definition behind it, and
\* two matches
SearchRuns ==
    { TimedOut,
      Exited(2, << >>),
      Exited(1, << >>),
      Exited(0, << >>),
      Exited(0, << OtherLine >>),
      Exited(0, << MatchLine(7, None) >>),
      Exited(0, << MatchLine(7, << "definition" >>) >>),
      Exited(0, << OtherLine, MatchLine(8, << "definition" >>) >>) }

InitLookups ==
    /\ BoundaryInit
    /\ ClassifierInit
    /\ ExposureInit
    /\ BranchesInit
    /\ StructuresInit
    /\ MacroReadingInit
    /\ CallersInit
    /\ StartupInit
    /\ lookup \in [ 1..3 -> SearchRuns ]
    /\ lookup_result = NoLookupResult
    /\ batch = NoBatch
    /\ report = NoReport

\* the record of a lookup by `by` that came to `result`
LookupResult(by, result) ==
    [ called |-> TRUE, by |-> by, raised |-> result.raised, value |-> result.value ]

\* a lookup changes nothing else
LookupOnly ==
    UNCHANGED <<analyzer, analyses, observed, stepping, aggregation, full_mode,
                classifier, exposure, branches, structures, macro_reading, callers,
                startup, lookup, batch, report, data_structures>>

\* StructureSearcher.search(struct_name)
SearchStructure ==
    /\ lookup_result' = LookupResult("structure_searcher", structure_search(lookup))
    /\ LookupOnly

\* ConstantSearcher.search(const_name)
SearchConstant ==
    /\ lookup_result' = LookupResult("constant_searcher", constant_search(lookup))
    /\ LookupOnly

\* MacroExtractor.extract_macro_definition(macro_name)
ExtractMacroDefinition ==
    /\ lookup_result' = LookupResult("macro_extractor", extract_macro_definition(lookup))
    /\ LookupOnly

\* ConstantExtractor._search_with_grep({identifier})
SearchWithGrep ==
    /\ lookup_result' = LookupResult("constant_extractor", _search_with_grep(lookup))
    /\ LookupOnly

NextLookups == SearchStructure \/ SearchConstant \/ ExtractMacroDefinition \/ SearchWithGrep

SpecLookups == InitLookups /\ [][NextLookups]_vars

\* a run that timed out, exited with an error, or found nothing
Fruitless(search_run) ==
    \/ search_run.kind = "timeout"
    \/ search_run.returncode # 0
    \/ search_run.stdout = << >>

\* C24: when the external text search times out, exits with an error or
\* finds nothing, search_content returns an empty result, and the
\* structure, macro and constant lookups built on it give None, or leave
\* the key absent, and raise nothing
C24_LookupNeverAborts ==
    /\ \A k \in 1..3 : Fruitless(lookup[k]) =>
           _search_via_script(lookup[k], 10) = Returned(<< >>)
    /\ (lookup_result.called /\ \A k \in 1..3 : Fruitless(lookup[k])) =>
           /\ ~ lookup_result.raised
           /\ lookup_result.value = None

\* a lookup whose every search failed, the first by a timeout
C24_Witness ==
    /\ lookup_result.called
    /\ lookup[1].kind = "timeout"
    /\ \A k \in 1..3 : Fruitless(lookup[k])
    /\ lookup[2].returncode = 2
    /\ lookup_result.value = None

(***************************************************************************)
(* One boundary-mode analysis with its batch of traces.                    *)
(***************************************************************************)
InitBatch ==
    /\ BoundaryInit
    /\ ToolsInit

\* _analyze_file_boundary_mode(target_file, trace_depth, target_function) on
\* a new CppProjectAnalyzer: analyze_file, then the loop of one trace per
\* entry point, which no handler surrounds
AnalyzeBatch ==
    /\ cur_file = NoFile /\ file_functions = EmptyDict
    /\ \E file \in AggFiles, target_function \in TraceNames \cup {NoTarget},
          trace_depth \in AggDepths :
          LET ff == _index_file_functions(file, file_functions)
              eps == EntryPoints(ff, target_function)
              raising == { n \in eps : trace_raises(ff, n, trace_depth) }
          IN  /\ AnalyzeSteps(UnitOf(file, << >>, << >>))
              /\ request' = [ target_function |-> target_function,
                              trace_depth |-> trace_depth ]
              /\ deps' = NoDeps
              /\ IF raising = {}
                 THEN /\ call_chains' = BuildCallChains(ff, target_function, trace_depth)
                      /\ batch' = [ status |-> "returned", error |-> "",
                                    entry_points |-> eps,
                                    traced_well |-> TracesWell(ff, eps, trace_depth) ]
                 ELSE /\ call_chains' = EmptyDict
                      /\ batch' = [ status |-> "raised", error |-> "RecursionError",
                                    entry_points |-> eps,
                                    traced_well |-> TracesWell(ff, eps, trace_depth) ]
    /\ UNCHANGED <<full_mode, classifier, exposure, branches, structures, macro_reading,
                   callers, startup, lookups, report>>

NextBatch == AnalyzeBatch

SpecBatch == InitBatch /\ [][NextBatch]_vars

\* C26: in a boundary-mode analysis of a file with several entry points, a
\* trace that returns None or raises for one entry point leaves the batch
\* running: the analysis returns, and its call chains hold the tree of every
\* entry point whose own trace gives one
C26_FailedTraceKeepsBatch ==
    batch.status # "none" =>
        /\ batch.status = "returned"
        /\ batch.traced_well \subseteq DOMAIN call_chains
        /\ \A n \in batch.traced_well :
               << call_chains[n] >> = trace_call_chain(file_functions, n, request.trace_depth)

(***************************************************************************)
(* Dependency collection over the call chains of a whole file, traced with *)
(* the default depth.                                                      *)
(***************************************************************************)
CollectFiles == FilesWithin(MaxCollectSites) \ {NoFile}

InitCollect ==
    /\ BoundaryInit
    /\ ToolsInit

\* _analyze_file_boundary_mode(target_file, 100, None) on a new
\* CppProjectAnalyzer
AnalyzeForCollect ==
    /\ cur_file = NoFile /\ file_functions = EmptyDict
    /\ \E file \in CollectFiles :
          /\ DoAnalyze(file)
          /\ call_chains' = BuildCallChains(_index_file_functions(file, file_functions),
                                            NoTarget, DefaultMaxDepth)
          /\ deps' = NoDeps
          /\ request' = [ target_function |-> NoTarget, trace_depth |-> DefaultMaxDepth ]

NextCollect == AnalyzeForCollect \/ Aggregate

SpecCollect == InitCollect /\ [][NextCollect]_vars

\* the names of the children, at any level, of a tree
NamesBelow(tree) == { o.node.function_name : o \in { q \in Occurrences(tree, << >>) : q.anc # << >> } }

\* C29: _collect_all_dependencies comes to an end on every call-chain map,
\* also when the trees of two functions hold each other, and within one
\* aggregation it descends into the tree of an internal function name at
\* most once
C29_EachTreeOnce ==
    deps.called =>
        /\ NoRepeat(deps.descents)
        /\ Range(deps.descents) \subseteq deps.internal \cap DOMAIN call_chains
        /\ deps.root \notin Range(deps.descents)

\* the aggregation descended into the trees of two functions that hold each
\* other
C29_Witness ==
    /\ deps.called
    /\ \E i, j \in 1..Len(deps.descents) :
          /\ i < j
          /\ deps.descents[i] \in NamesBelow(call_chains[deps.descents[j]])
          /\ deps.descents[j] \in NamesBelow(call_chains[deps.descents[i]])

(***************************************************************************)
(* Reports on the call chains of a whole file.                             *)
(***************************************************************************)
\* generate_single_function_report(func_name)
GenerateSingleFunctionReport ==
    /\ cur_file # NoFile
    /\ \E func_name \in TraceNames :
          report' = [ called    |-> TRUE,
                      func_name |-> func_name,
                      sections  |-> _generate_recursive_function_info(
                                        call_chains, func_name, << >>,
                                        [ visited |-> {}, sections |-> << >> ]).sections ]
    /\ UNCHANGED <<analyzer, analyses, observed, stepping, aggregation, full_mode,
                   classifier, exposure, branches, structures, macro_reading, callers,
                   startup, lookups, batch, data_structures>>

NextReport == AnalyzeForCollect \/ GenerateSingleFunctionReport

SpecReport == InitCollect /\ [][NextReport]_vars

\* the positions of the sections of the report
Sections == 1..Len(report.sections)

IsPrefixOf(p, q) == Len(p) <= Len(q) /\ SubSeq(q, 1, Len(p)) = p

\* the section k sits under the section whose prefix is its own without the
\* last number, as that function's dependency of that number
Under(k, parent) ==
    LET sec == report.sections[k]
        par == report.sections[parent]
        dep_funcs == direct_internal_deps(call_chains, par.function_name)
        idx == sec.number_prefix[Len(sec.number_prefix)]
    IN  /\ parent < k
        /\ par.number_prefix = SubSeq(sec.number_prefix, 1, Len(sec.number_prefix) - 1)
        /\ idx \in 1..Len(dep_funcs)
        /\ dep_funcs[idx] = sec.function_name
        /\ \A j \in 1..(idx - 1) : dep_funcs[j] # sec.function_name

\* no other caller reached the function of section k before `parent` did: a
\* caller's section comes later, or the caller is a function still being
\* expanded whose dependency of that name comes after the one that led here
FirstToReach(k, parent) ==
    \A q \in Sections \ {parent} :
        LET sec == report.sections[k]
            caller == report.sections[q]
            dep_funcs == direct_internal_deps(call_chains, caller.function_name)
        IN  (\E j \in 1..Len(dep_funcs) : dep_funcs[j] = sec.function_name) =>
                \/ q >= k
                \/ /\ IsPrefixOf(caller.number_prefix, report.sections[parent].number_prefix)
                   /\ \A j \in 1..Len(dep_funcs) :
                          dep_funcs[j] = sec.function_name
                              => j > sec.number_prefix[Len(caller.number_prefix) + 1]

\* C30: a report of one function expands each function at most once: the
\* expansion over direct internal dependencies ends on cyclic and
\* self-recursive call chains, no function has two sections, every direct
\* internal dependency of a function with a section has one, and the
\* section of a function is under the first caller that reaches it in child
\* order
C30_EachFunctionOnce ==
    report.called =>
        /\ report.sections # << >>
        /\ report.sections[1] = [ function_name |-> report.func_name, number_prefix |-> << >> ]
        /\ \A i, j \in Sections : i # j =>
               report.sections[i].function_name # report.sections[j].function_name
        /\ \A k \in Sections :
               Range(direct_internal_deps(call_chains, report.sections[k].function_name))
                   \subseteq { report.sections[i].function_name : i \in Sections }
        /\ \A k \in Sections \ {1} :
               \E parent \in Sections : Under(k, parent) /\ FirstToReach(k, parent)

\* a report with a function that two functions of the report call, placed
\* under the one expanded first, and with a function that calls itself or
\* its caller
C30_Witness ==
    /\ report.called
    /\ \E k, p, q \in Sections :
          /\ Under(k, p)
          /\ q # p /\ q # k
          /\ report.sections[k].function_name
                 \in Range(direct_internal_deps(call_chains, report.sections[q].function_name))
    /\ \E k, q \in Sections :
          /\ q <= k
          /\ report.sections[q].function_name
                 \in Range(direct_internal_deps(call_chains, report.sections[k].function_name))

====
